---- MODULE Spec2Model ----
(***************************************************************************)
(* Model of the AI interview orchestrator of Inter-AI:                     *)
(*   backend/interviews/ai_views.py       AIInterviewView and the          *)
(*                                        module-level active_ai_sessions  *)
(*   backend/interviews/gemini_service.py GeminiAIInterviewer and          *)
(*                                        MockAIInterviewer                *)
(*   backend/interviews/ai_service.py     AIInterviewer (OpenAI)           *)
(*   backend/interviews/models.py         Conversation (the transcript)    *)
(*                                                                         *)
(* Requests are served by worker threads that share the registry, the      *)
(* engine objects and the Conversation table.  Every step of a handler     *)
(* that reads or writes shared state is one action, so the interleavings   *)
(* of two requests are the interleavings the threaded server can produce.  *)
(***************************************************************************)
EXTENDS Integers, Sequences, FiniteSets, TLC

\* ---------------------------------------------------------------- bounds
MaxReq == 3
MaxPairReq == 2
MaxSeqReq == 4
\* requests received in a run of SpecLife
MaxLifeReq == 3
\* requests received in a run of SpecClock, and the last reading of its clock
MaxClockReq == 2
MaxTick == 1
\* requests received in a run of SpecTwo
MaxTwoReq == 2
\* requests received and direct calls made in a run of SpecEngine
MaxEngReq == 2
MaxDirect == 2
\* entries of a context mapping and builder calls in a run of SpecPrompt
MaxContext == 2
MaxBuild == 2
\* generate requests in a run of SpecReport
MaxGen == 3
\* engine objects constructed and methods called on them in a run of SpecGemini
MaxObjects == 1
MaxCalls == 3
MaxQuestions == 2

\* ------------------------------------------------------------- universes
Threads == {"t1", "t2"}
Sessions == {"s1"}
None == 0

QuestionPool == <<"Q1", "Q2", "Q3", "Q4">>
\* the ordered question texts a session can hold: Question rows by 'order'
QuestionLists == {SubSeq(QuestionPool, 1, n) : n \in 0..MaxQuestions}

\* a second session, present only in the runs of SpecTwo
OtherSessions == {"s2"}
Actions == {"initialize", "respond", "end", "bogus"}
\* request.data.get('student_response'): absent/empty or a text
StudentResponses == {"", "answer"}

\* ------------------------------------------------------- string literals
MOCK_GREETING == "Hello! Welcome to this interview. I'm excited to learn more about you. Let's begin!"
MOCK_CLOSING_SENTENCE == "Thank you for your responses! That concludes our interview."
MOCK_VALEDICTION == "Thank you for taking the time to interview with us today. We appreciate your interest and will be in touch soon. Have a great day!"
GEMINI_VALEDICTION == "Thank you for your time."
START_DIRECTIVE == "Start the interview with a warm greeting."
FIRST_DIRECTIVE == "Please ask the first question."
NEXT_DIRECTIVE == "Please ask the next question."
WRAPUP_DIRECTIVE == "The interview is now complete."
SYSTEM_PROMPT == "system prompt"
PROVIDER_REPLY == "provider reply"
\* str(e) of the exception a failing provider request raises
ProviderErrors == {"provider failure"}

\* InterviewSession.STATUS_CHOICES
STATUS_CHOICES == {"scheduled", "in_progress", "completed", "cancelled"}
\* the value timezone.now() stores in a DateTimeField; None is the null field
Now == 1

VARIABLES
    clock,       \* the time timezone.now() returns
    prompt,      \* a call of _build_system_prompt: its arguments and results
    probe,       \* the last direct call on an engine object and its result
    life,        \* the last start or end request of a session and its answer
    report,      \* InterviewReport rows, renderer runs and the generate requests
    session,     \* session |-> status, started_at, ended_at (InterviewSession row)
                 \* and, as history, the status the row was created with
    questions,   \* session |-> ordered question texts (Question table)
    registry,    \* active_ai_sessions: session |-> engine id, None if absent
    engines,     \* heap of engine objects, indexed by engine id
    transcript,  \* session |-> Conversation rows in insertion order
    th,          \* thread |-> position and locals of the request it serves
    nreq,        \* number of requests received so far
    evicted      \* engine ids removed from the registry by 'del'

\* what the request handlers never write
aux == <<clock, prompt, probe, life, report>>

\* the InterviewSession rows of the store
Stored == DOMAIN questions

\* request.data.get('session_id'): absent, unknown to the store, or a session
SessionIds == Stored \cup {"", "unknown"}

vars == <<clock, prompt, probe, life, report, session, questions, registry, engines, transcript, th, nreq,
          evicted>>


\* ------------------------------------------------ _build_system_prompt
\* A prompt is the sequence of the pieces the builder concatenates.
PREAMBLE == "You are a professional and friendly AI interviewer."
CONTEXT_HEADER == "INTERVIEW CONTEXT:"
QUESTIONS_HEADER == "QUESTIONS TO ASK (in order):"

\* the context argument: None, or a dict as the sequence of its items in
\* insertion order
NoContext == [given |-> FALSE, items |-> <<>>]
ContextKeys == {"position", "company"}
ContextValues == {"engineer", "acme"}
ItemLists ==
    {its \in UNION {[1..n -> ContextKeys \X ContextValues] : n \in 0..MaxContext} :
        \A i, j \in 1..Len(its) : i # j => its[i][1] # its[j][1]}
Contexts == {NoContext} \cup {[given |-> TRUE, items |-> its] : its \in ItemLists}

\* f"- {key}: {value}\n" and f"{i}. {question}\n"
ContextLine(item) == <<"- ", item[1], ": ", item[2]>>
QuestionLine(i, question) == <<i, ". ", question>>

\* 'for key, value in context.items(): prompt += ...'
RECURSIVE AddContext(_, _)
AddContext(p, items) ==
    IF items = <<>> THEN p ELSE AddContext(Append(p, ContextLine(Head(items))), Tail(items))

\* 'for i, question in enumerate(questions, start): prompt += ...'
RECURSIVE AddQuestions(_, _, _)
AddQuestions(p, qs, i) ==
    IF qs = <<>> THEN p ELSE AddQuestions(Append(p, QuestionLine(i, Head(qs))), Tail(qs), i + 1)

\* the value the builder returns and its two arguments after the call
Built(out, qs, context) == [out |-> out, questions |-> qs, context |-> context]

\* a builder that numbers the questions from 0
AIInterviewer_build_system_prompt_from_zero(qs, context) ==
    LET p0 == <<PREAMBLE>>
        p1 == IF context.given /\ context.items # <<>>
              THEN AddContext(Append(p0, CONTEXT_HEADER), context.items)
              ELSE p0
    IN  Built(AddQuestions(Append(p1, QUESTIONS_HEADER), qs, 0), qs, context)

\* AIInterviewer._build_system_prompt, ai_service.py 64-98
AIInterviewer_build_system_prompt(qs, context) ==
    LET p0 == <<PREAMBLE>>
        p1 == IF context.given /\ context.items # <<>>
              THEN AddContext(Append(p0, CONTEXT_HEADER), context.items)
              ELSE p0
    IN  Built(AddQuestions(Append(p1, QUESTIONS_HEADER), qs, 1), qs, context)

\* GeminiAIInterviewer._build_system_prompt, gemini_service.py 71-105
GeminiAIInterviewer_build_system_prompt(qs, context) ==
    LET p0 == <<PREAMBLE>>
        p1 == IF context.given /\ context.items # <<>>
              THEN AddContext(Append(p0, CONTEXT_HEADER), context.items)
              ELSE p0
    IN  Built(AddQuestions(Append(p1, QUESTIONS_HEADER), qs, 1), qs, context)

\* ------------------------------------------------------- engine objects
Msg(role, content) == [role |-> role, content |-> content]

CountRole(hist, role) == Cardinality({i \in 1..Len(hist) : hist[i].role = role})

\* One record shape for the three engine classes; a class uses its own fields:
\*   mock    questions, idx (current_question_index), hist
\*   openai  hist (client is the provider handle)
\*   gemini  chat (self.chat is set), sys (system_prompt), hist
\* creator and rets are history fields: the request that built the object and
\* the values get_ai_response returned since the object's latest
\* initialize_interview. prompted is a history field too: the number of
\* successful provider requests since the latest initialize_interview whose
\* message carried the system prompt.
NewEngine(kind) ==
    [kind |-> kind, questions |-> <<>>, idx |-> 0, hist |-> <<>>,
     chat |-> FALSE, sys |-> "", creator |-> 0, rets |-> <<>>, prompted |-> 0]

Result(e, out, raised) == [e |-> e, out |-> out, raised |-> raised]

\* a mock whose initialize_interview returns no greeting
MockInitialize_no_greeting(e, qs) ==
    Result([e EXCEPT !.questions = qs, !.idx = 0], "", FALSE)

\* MockAIInterviewer.initialize_interview
MockInitialize(e, qs) ==
    Result([e EXCEPT !.questions = qs, !.idx = 0,
                     !.hist = Append(@, Msg("assistant", MOCK_GREETING))],
           MOCK_GREETING, FALSE)

\* AIInterviewer.initialize_interview; ok: the completion request succeeds
OpenAIInitialize(e, qs, ok) ==
    LET h0 == <<Msg("system", SYSTEM_PROMPT)>>
        h1 == Append(h0, Msg("user", START_DIRECTIVE))
    IN  IF ok
        THEN Result([e EXCEPT !.hist = Append(h1, Msg("assistant", PROVIDER_REPLY))],
                    PROVIDER_REPLY, FALSE)
        ELSE Result([e EXCEPT !.hist = h1], "AI service error", TRUE)

\* GeminiAIInterviewer.initialize_interview; ok: chat.send_message succeeds
GeminiInitialize(e, qs, ok) ==
    LET e0 == [e EXCEPT !.sys = SYSTEM_PROMPT, !.chat = TRUE, !.hist = <<>>,
                        !.prompted = 0]
    IN  IF ok
        THEN Result([e0 EXCEPT !.hist = <<Msg("user", START_DIRECTIVE),
                                          Msg("assistant", PROVIDER_REPLY)>>,
                               !.prompted = 1],
                    PROVIDER_REPLY, FALSE)
        ELSE Result(e0, "AI service error", TRUE)

InitializeInterview(kind, qs, ok) ==
    CASE kind = "mock"   -> MockInitialize(NewEngine(kind), qs)
      [] kind = "openai" -> OpenAIInitialize(NewEngine(kind), qs, ok)
      [] kind = "gemini" -> GeminiInitialize(NewEngine(kind), qs, ok)

\* initialize_interview of e's class, called on the object e as it is
InitializeOn(e, qs, ok) ==
    CASE e.kind = "mock"   -> MockInitialize(e, qs)
      [] e.kind = "openai" -> OpenAIInitialize(e, qs, ok)
      [] e.kind = "gemini" -> GeminiInitialize(e, qs, ok)

\* get_conversation_summary, the same body in the three classes
Summary(e) ==
    [total_messages |-> Len(e.hist),
     student_messages |-> CountRole(e.hist, "user"),
     ai_messages |-> CountRole(e.hist, "assistant"),
     conversation |-> e.hist]

NoSummary ==
    [total_messages |-> 0, student_messages |-> 0, ai_messages |-> 0,
     conversation |-> <<>>]

\* a summary that hands the history over and starts a new one
GetConversationSummary_draining(e) == [out |-> Summary(e), e |-> [e EXCEPT !.hist = <<>>]]

\* a call of get_conversation_summary: what it returns and the object after it
GetConversationSummary(e) == [out |-> Summary(e), e |-> e]

\* the two provider branches in the other order
SelectEngine_openai_first(gemKey, gemOk, oaiKey, oaiOk) ==
    IF oaiKey /\ oaiOk THEN "openai"
    ELSE IF gemKey /\ gemOk THEN "gemini"
    ELSE "mock"

\* Engine choice of _initialize_interview: Gemini if its key is set and its
\* constructor succeeds, else OpenAI on the same terms, else the mock.
SelectEngine(gemKey, gemOk, oaiKey, oaiOk) ==
    IF gemKey /\ gemOk THEN "gemini"
    ELSE IF oaiKey /\ oaiOk THEN "openai"
    ELSE "mock"

\* Which provider engines _initialize_interview obtained on the way: Gemini is
\* obtained when its key is set and its constructor returns; the OpenAI
\* constructor is reached only without a Gemini engine, and obtains one when
\* its key is set and it returns.
Attempts(gemKey, gemOk, oaiKey, oaiOk) ==
    LET g == gemKey /\ gemOk
    IN  [gemini |-> IF g THEN "built" ELSE "absent",
         openai |-> IF ~g /\ oaiKey /\ oaiOk THEN "built" ELSE "absent"]

NoAttempts == [gemini |-> "none", openai |-> "none"]

\* first step of engine.get_ai_response / engine.end_interview by class
EntryRespond(kind) ==
    CASE kind = "mock" -> "m_user" [] kind = "openai" -> "o_user" [] kind = "gemini" -> "g_test"

EntryEnd(kind) ==
    CASE kind = "mock" -> "me_append" [] kind = "openai" -> "oe_user" [] kind = "gemini" -> "g_test"

\* ------------------------------------------------------------- responses
\* a: first payload field or the error text; detail: the provider's message
\* an error text carries after its prefix
NoResp == [status |-> 0, kind |-> "none", a |-> "", b |-> "", summary |-> NoSummary, detail |-> ""]
Ok(a, b, sm) == [status |-> 200, kind |-> "ok", a |-> a, b |-> b, summary |-> sm, detail |-> ""]
Err(status, kind, m) ==
    [status |-> status, kind |-> kind, a |-> m, b |-> "", summary |-> NoSummary, detail |-> ""]

\* an engine that re-raises without the provider's message
EngineError_bare(pm) == Err(500, "error", "AI service error")

\* the engine's 'except Exception as e: raise Exception(f"AI service error:
\* {str(e)}")' as the view's 'except Exception' turns it into a response
EngineError(pm) == [Err(500, "error", "AI service error") EXCEPT !.detail = pm]

\* --------------------------------------------------------- thread locals
IdleLocals ==
    [pc |-> "idle", epc |-> "none", act |-> "", sess |-> "", msg |-> "",
     eng |-> None, arg |-> "", opening |-> "", ret |-> "", q |-> "",
     ld |-> 0, first |-> FALSE, summary |-> NoSummary, rid |-> 0, resp |-> NoResp,
     sel |-> NoAttempts, perr |-> "", calls |-> 0, h0 |-> 0, after |-> ""]

\* a Conversation row, timestamp set on creation (auto_now_add); req and by
\* are history fields (the writing request)
Entry(speaker, message, question, t) ==
    [speaker |-> speaker, message |-> message, question |-> question,
     timestamp |-> clock, req |-> th[t].rid, by |-> th[t].act]

\* an InterviewSession row as the model's defaults create it
NewSession(st) == [status |-> st, started_at |-> None, ended_at |-> None, created |-> st]

\* no builder call and no direct engine call made yet
NoPrompt ==
    [questions |-> <<>>, context |-> NoContext, openai |-> <<>>, gemini |-> <<>>, n |-> 0]
NoProbe ==
    [op |-> "none", eng |-> None, out |-> NoSummary, at |-> 0, again |-> FALSE, n |-> 0]

\* no start or end request has been served
NoLife == [op |-> "none", s |-> "", status |-> 0, before |-> NewSession("")]

\* the locals of a worker thread that serves no generate request
GenIdle == [pc |-> "idle", sess |-> "", rid |-> 0, status |-> 0, failed |-> FALSE]

\* no InterviewReport row, no renderer run, no generate request
NoReport == [rows |-> <<>>, runs |-> <<>>, g |-> [t \in Threads |-> GenIdle], n |-> 0]

InitAux ==
    /\ clock = 0
    /\ prompt = NoPrompt
    /\ probe = NoProbe
    /\ life = NoLife
    /\ report = NoReport

Init ==
    /\ InitAux
    /\ session = [s \in Sessions |-> NewSession("scheduled")]
    /\ questions \in [Sessions -> QuestionLists]
    /\ registry = [s \in Sessions |-> None]
    /\ engines = <<>>
    /\ transcript = [s \in Sessions |-> <<>>]
    /\ th = [t \in Threads |-> IdleLocals]
    /\ nreq = 0
    /\ evicted = {}

\* what stays known of a request once its handler has returned: the request
\* itself, and as history the constructor attempts (sel), the provider error
\* it met (perr) and the number of engine calls the view made (calls)
Kept(t) ==
    [IdleLocals EXCEPT !.act = th[t].act, !.sess = th[t].sess, !.msg = th[t].msg,
                       !.rid = th[t].rid, !.sel = th[t].sel, !.calls = th[t].calls,
                       !.after = th[t].after]

\* the handler returns response r
Finish(t, r) == th' = [th EXCEPT ![t] = [Kept(t) EXCEPT !.resp = r]]

\* a view that calls the engine a second time when the first call raised
ProviderFailure_retry(t, pm) ==
    IF th[t].calls < 2
    THEN th' = [th EXCEPT ![t].calls = @ + 1,
                          ![t].epc = IF th[t].pc = "e_call"
                                     THEN EntryEnd(engines[th[t].eng].kind)
                                     ELSE EntryRespond(engines[th[t].eng].kind)]
    ELSE th' = [th EXCEPT ![t] = [Kept(t) EXCEPT !.perr = pm, !.resp = EngineError(pm),
                                                 !.h0 = th[t].h0]]

\* a provider request raised pm inside the engine; h0, the length the
\* engine's history had when the view called it, stays known as history
ProviderFailure(t, pm) ==
    th' = [th EXCEPT ![t] = [Kept(t) EXCEPT !.perr = pm, !.resp = EngineError(pm),
                                            !.h0 = th[t].h0]]

AllIdle == \A t \in Threads : th[t].pc = "idle"

\* history: what the request thread t served before the one it now takes for
\* session sid was, when that was an end of sid whose provider call failed
After(t, sid) ==
    IF th[t].act = "end" /\ th[t].sess = sid /\ th[t].perr # "" THEN "end_failed" ELSE ""


\* a dispatcher that validates student_response before it looks the session up
post_response_first(t) ==
    /\ th[t].pc = "idle"
    /\ \E a \in Actions, sid \in SessionIds, sr \in StudentResponses :
        LET me == [IdleLocals EXCEPT !.act = a, !.sess = sid, !.msg = sr, !.rid = nreq + 1,
                                     !.after = After(t, sid)]
            stop(r) == [me EXCEPT !.resp = r, !.msg = IF a = "respond" THEN sr ELSE ""]
        IN  th' = [th EXCEPT ![t] =
                IF sid = "" THEN stop(Err(400, "validation", "session_id is required"))
                ELSE IF a = "respond" /\ sr = ""
                     THEN stop(Err(400, "validation", "student_response is required"))
                ELSE IF sid \notin Stored THEN stop(Err(404, "not_found", "Session not found"))
                ELSE IF a = "initialize" THEN [me EXCEPT !.pc = "i_start", !.msg = ""]
                ELSE IF a = "respond" THEN [me EXCEPT !.pc = "r_check"]
                ELSE IF a = "end" THEN [me EXCEPT !.pc = "e_check", !.msg = ""]
                ELSE stop(Err(400, "validation", "Invalid action"))]
    /\ nreq' = nreq + 1
    /\ UNCHANGED <<aux, session, questions, registry, engines, transcript, evicted>>

\* ------------------------------------------------ AIInterviewView.post
\* A worker thread takes a request, validates session_id, resolves the
\* session and dispatches on the action.
post(t) ==
    /\ th[t].pc = "idle"
    /\ \E a \in Actions, sid \in SessionIds, sr \in StudentResponses :
        LET me == [IdleLocals EXCEPT !.act = a, !.sess = sid, !.msg = sr, !.rid = nreq + 1,
                                     !.after = After(t, sid)]
            stop(r) == [me EXCEPT !.resp = r, !.msg = IF a = "respond" THEN sr ELSE ""]
        IN  th' = [th EXCEPT ![t] =
                IF sid = "" THEN stop(Err(400, "validation", "session_id is required"))
                ELSE IF sid \notin Stored THEN stop(Err(404, "not_found", "Session not found"))
                ELSE IF a = "initialize" THEN [me EXCEPT !.pc = "i_start", !.msg = ""]
                ELSE IF a = "respond" THEN [me EXCEPT !.pc = "r_check"]
                ELSE IF a = "end" THEN [me EXCEPT !.pc = "e_check", !.msg = ""]
                ELSE stop(Err(400, "validation", "Invalid action"))]
    /\ nreq' = nreq + 1
    /\ UNCHANGED <<aux, session, questions, registry, engines, transcript, evicted>>

\* an exception reaches the handler's 'except Exception': 500 with its text
Raise(t, m) == Finish(t, Err(500, "error", m))

\* _initialize_interview without the test of lines 69-73
i_start_unchecked(t) ==
    /\ th[t].pc = "i_start"
    /\ \E gemKey, gemOk, oaiKey, oaiOk, ok \in BOOLEAN, pm \in ProviderErrors :
         LET qs == questions[th[t].sess]
             r == InitializeInterview(SelectEngine(gemKey, gemOk, oaiKey, oaiOk), qs, ok)
             sel == Attempts(gemKey, gemOk, oaiKey, oaiOk)
         IN  IF r.raised
             THEN /\ th' = [th EXCEPT ![t] =
                              [Kept(t) EXCEPT !.sel = sel, !.perr = pm,
                                              !.resp = EngineError(pm)]]
                  /\ UNCHANGED engines
             ELSE /\ engines' = Append(engines, [r.e EXCEPT !.creator = th[t].rid])
                  /\ th' = [th EXCEPT ![t].pc = "i_reg",
                                      ![t].sel = sel,
                                      ![t].eng = Len(engines) + 1,
                                      ![t].opening = r.out]
    /\ UNCHANGED <<aux, session, questions, registry, transcript, nreq, evicted>>

\* -------------------------------- AIInterviewView._initialize_interview
\* Lines 65-110: load the questions, choose and construct the engine, call
\* engine.initialize_interview.  The new object is not shared yet.
i_start(t) ==
    /\ th[t].pc = "i_start"
    /\ LET qs == questions[th[t].sess]
       IN  IF qs = <<>>
           THEN /\ Finish(t, Err(400, "no_questions", "No questions found for this session"))
                /\ UNCHANGED engines
           ELSE \E gemKey, gemOk, oaiKey, oaiOk, ok \in BOOLEAN, pm \in ProviderErrors :
                  LET r == InitializeInterview(SelectEngine(gemKey, gemOk, oaiKey, oaiOk), qs, ok)
                      sel == Attempts(gemKey, gemOk, oaiKey, oaiOk)
                  IN  IF r.raised
                      THEN /\ th' = [th EXCEPT ![t] =
                                       [Kept(t) EXCEPT !.sel = sel, !.perr = pm,
                                                       !.resp = EngineError(pm)]]
                           /\ UNCHANGED engines
                      ELSE /\ engines' = Append(engines, [r.e EXCEPT !.creator = th[t].rid])
                           /\ th' = [th EXCEPT ![t].pc = "i_reg",
                                               ![t].sel = sel,
                                               ![t].eng = Len(engines) + 1,
                                               ![t].opening = r.out]
    /\ UNCHANGED <<aux, session, questions, registry, transcript, nreq, evicted>>

\* i_reg as setdefault: an engine already registered is kept
i_reg_keep_first(t) ==
    /\ th[t].pc = "i_reg"
    /\ registry' = [registry EXCEPT ![th[t].sess] = IF @ = None THEN th[t].eng ELSE @]
    /\ th' = [th EXCEPT ![t].pc = "i_save1"]
    /\ UNCHANGED <<aux, session, questions, engines, transcript, nreq, evicted>>

\* line 113: active_ai_sessions[key] = ai_interviewer
i_reg(t) ==
    /\ th[t].pc = "i_reg"
    /\ registry' = [registry EXCEPT ![th[t].sess] = th[t].eng]
    /\ th' = [th EXCEPT ![t].pc = "i_save1"]
    /\ UNCHANGED <<aux, session, questions, engines, transcript, nreq, evicted>>

\* lines 116-123: save the opening message, then call get_ai_response
i_save1(t) ==
    /\ th[t].pc = "i_save1"
    /\ transcript' = [transcript EXCEPT ![th[t].sess] =
                        Append(@, Entry("ai", th[t].opening, 0, t))]
    /\ th' = [th EXCEPT ![t].pc = "i_first",
                        ![t].epc = EntryRespond(engines[th[t].eng].kind),
                        ![t].arg = FIRST_DIRECTIVE,
                        ![t].calls = @ + 1,
                        ![t].h0 = Len(engines[th[t].eng].hist)]
    /\ UNCHANGED <<aux, session, questions, registry, engines, nreq, evicted>>

\* the first question saved without its link to questions.first()
i_save2_unlinked(t) ==
    /\ th[t].pc = "i_save2"
    /\ transcript' = [transcript EXCEPT ![th[t].sess] =
                        Append(@, Entry("ai", th[t].ret, 0, t))]
    /\ Finish(t, Ok(th[t].opening, th[t].ret, NoSummary))
    /\ UNCHANGED <<aux, session, questions, registry, engines, nreq, evicted>>

\* lines 126-137: save the first question linked to questions.first()
i_save2(t) ==
    /\ th[t].pc = "i_save2"
    /\ transcript' = [transcript EXCEPT ![th[t].sess] =
                        Append(@, Entry("ai", th[t].ret, 1, t))]
    /\ Finish(t, Ok(th[t].opening, th[t].ret, NoSummary))
    /\ UNCHANGED <<aux, session, questions, registry, engines, nreq, evicted>>

\* ------------------------------------ AIInterviewView._get_ai_response
\* r_check without the membership test on active_ai_sessions
r_check_unguarded(t) ==
    /\ th[t].pc = "r_check"
    /\ IF th[t].msg = ""
       THEN Finish(t, Err(400, "validation", "student_response is required"))
       ELSE th' = [th EXCEPT ![t].pc = "r_get"]
    /\ UNCHANGED <<aux, session, questions, registry, engines, transcript, nreq, evicted>>

\* lines 148-163: student_response present, then key in active_ai_sessions
r_check(t) ==
    /\ th[t].pc = "r_check"
    /\ IF th[t].msg = ""
       THEN Finish(t, Err(400, "validation", "student_response is required"))
       ELSE IF registry[th[t].sess] = None
       THEN Finish(t, Err(400, "no_engine", "AI session not found. Please initialize the interview first."))
       ELSE th' = [th EXCEPT ![t].pc = "r_get"]
    /\ UNCHANGED <<aux, session, questions, registry, engines, transcript, nreq, evicted>>

\* a respond that takes the engine out of the registry (pop) to use it
r_get_pop(t) ==
    /\ th[t].pc = "r_get"
    /\ IF registry[th[t].sess] = None
       THEN Raise(t, "KeyError") /\ UNCHANGED registry
       ELSE /\ th' = [th EXCEPT ![t].pc = "r_save1", ![t].eng = registry[th[t].sess]]
            /\ registry' = [registry EXCEPT ![th[t].sess] = None]
    /\ UNCHANGED <<aux, session, questions, engines, transcript, nreq, evicted>>

\* line 166: ai_interviewer = active_ai_sessions[key]  (KeyError if deleted)
r_get(t) ==
    /\ th[t].pc = "r_get"
    /\ IF registry[th[t].sess] = None
       THEN Raise(t, "KeyError")
       ELSE th' = [th EXCEPT ![t].pc = "r_save1", ![t].eng = registry[th[t].sess]]
    /\ UNCHANGED <<aux, session, questions, registry, engines, transcript, nreq, evicted>>

\* r_save1 with the student's row not written before the engine is called
r_save1_unsaved(t) ==
    /\ th[t].pc = "r_save1"
    /\ th' = [th EXCEPT ![t].pc = "r_call",
                        ![t].epc = EntryRespond(engines[th[t].eng].kind),
                        ![t].arg = th[t].msg,
                        ![t].calls = @ + 1,
                        ![t].h0 = Len(engines[th[t].eng].hist)]
    /\ UNCHANGED <<aux, session, questions, registry, engines, transcript, nreq, evicted>>

\* lines 169-176: save the student's response, then call get_ai_response
r_save1(t) ==
    /\ th[t].pc = "r_save1"
    /\ transcript' = [transcript EXCEPT ![th[t].sess] =
                        Append(@, Entry("student", th[t].msg, 0, t))]
    /\ th' = [th EXCEPT ![t].pc = "r_call",
                        ![t].epc = EntryRespond(engines[th[t].eng].kind),
                        ![t].arg = th[t].msg,
                        ![t].calls = @ + 1,
                        ![t].h0 = Len(engines[th[t].eng].hist)]
    /\ UNCHANGED <<aux, session, questions, registry, engines, nreq, evicted>>

\* r_save2 with the reply stored under the student's speaker tag
r_save2_as_student(t) ==
    /\ th[t].pc = "r_save2"
    /\ transcript' = [transcript EXCEPT ![th[t].sess] =
                        Append(@, Entry("student", th[t].ret, 0, t))]
    /\ Finish(t, Ok(th[t].ret, "", NoSummary))
    /\ UNCHANGED <<aux, session, questions, registry, engines, nreq, evicted>>

\* lines 179-188: save the AI's response and return it
r_save2(t) ==
    /\ th[t].pc = "r_save2"
    /\ transcript' = [transcript EXCEPT ![th[t].sess] =
                        Append(@, Entry("ai", th[t].ret, 0, t))]
    /\ Finish(t, Ok(th[t].ret, "", NoSummary))
    /\ UNCHANGED <<aux, session, questions, registry, engines, nreq, evicted>>

\* _end_interview without the membership test of lines 201-205
e_check_unguarded(t) ==
    /\ th[t].pc = "e_check"
    /\ th' = [th EXCEPT ![t].pc = "e_get"]
    /\ UNCHANGED <<aux, session, questions, registry, engines, transcript, nreq, evicted>>

\* -------------------------------------- AIInterviewView._end_interview
\* lines 199-205
e_check(t) ==
    /\ th[t].pc = "e_check"
    /\ IF registry[th[t].sess] = None
       THEN Finish(t, Err(400, "no_engine", "AI session not found"))
       ELSE th' = [th EXCEPT ![t].pc = "e_get"]
    /\ UNCHANGED <<aux, session, questions, registry, engines, transcript, nreq, evicted>>

\* an end that unregisters the engine before it calls end_interview
e_get_pop(t) ==
    /\ th[t].pc = "e_get"
    /\ IF registry[th[t].sess] = None
       THEN /\ Raise(t, "KeyError")
            /\ UNCHANGED <<registry, evicted>>
       ELSE /\ th' = [th EXCEPT ![t].pc = "e_call",
                                ![t].eng = registry[th[t].sess],
                                ![t].epc = EntryEnd(engines[registry[th[t].sess]].kind),
                                ![t].arg = WRAPUP_DIRECTIVE,
                                ![t].calls = @ + 1,
                                ![t].h0 = Len(engines[registry[th[t].sess]].hist)]
            /\ registry' = [registry EXCEPT ![th[t].sess] = None]
            /\ evicted' = evicted \cup {registry[th[t].sess]}
    /\ UNCHANGED <<aux, session, questions, engines, transcript, nreq>>

\* lines 208-211: fetch the engine (KeyError if deleted), call end_interview
e_get(t) ==
    /\ th[t].pc = "e_get"
    /\ IF registry[th[t].sess] = None
       THEN Raise(t, "KeyError")
       ELSE th' = [th EXCEPT ![t].pc = "e_call",
                             ![t].eng = registry[th[t].sess],
                             ![t].epc = EntryEnd(engines[registry[th[t].sess]].kind),
                             ![t].arg = WRAPUP_DIRECTIVE,
                             ![t].calls = @ + 1,
                             ![t].h0 = Len(engines[registry[th[t].sess]].hist)]
    /\ UNCHANGED <<aux, session, questions, registry, engines, transcript, nreq, evicted>>

\* an end that stores the closing message over the last row
e_save_overwrites(t) ==
    /\ th[t].pc = "e_save"
    /\ transcript' = [transcript EXCEPT ![th[t].sess] =
                        [@ EXCEPT ![Len(@)] = Entry("ai", th[t].ret, 0, t)]]
    /\ th' = [th EXCEPT ![t].pc = "e_summary"]
    /\ UNCHANGED <<aux, session, questions, registry, engines, nreq, evicted>>

\* lines 214-218: save the closing message
e_save(t) ==
    /\ th[t].pc = "e_save"
    /\ transcript' = [transcript EXCEPT ![th[t].sess] =
                        Append(@, Entry("ai", th[t].ret, 0, t))]
    /\ th' = [th EXCEPT ![t].pc = "e_summary"]
    /\ UNCHANGED <<aux, session, questions, registry, engines, nreq, evicted>>

\* an end that also marks the InterviewSession row completed
e_summary_completes(t) ==
    /\ th[t].pc = "e_summary"
    /\ LET r == GetConversationSummary(engines[th[t].eng])
       IN  /\ th' = [th EXCEPT ![t].pc = "e_del", ![t].summary = r.out]
           /\ engines' = [engines EXCEPT ![th[t].eng] = r.e]
    /\ session' = [session EXCEPT ![th[t].sess].status = "completed",
                                  ![th[t].sess].ended_at = Now]
    /\ UNCHANGED <<aux, questions, registry, transcript, nreq, evicted>>

\* line 221: summary = ai_interviewer.get_conversation_summary()
e_summary(t) ==
    /\ th[t].pc = "e_summary"
    /\ LET r == GetConversationSummary(engines[th[t].eng])
       IN  /\ th' = [th EXCEPT ![t].pc = "e_del", ![t].summary = r.out]
           /\ engines' = [engines EXCEPT ![th[t].eng] = r.e]
    /\ UNCHANGED <<aux, session, questions, registry, transcript, nreq, evicted>>

\* e_del without the del: the engine stays registered
e_del_kept(t) ==
    /\ th[t].pc = "e_del"
    /\ Finish(t, Ok(th[t].ret, "", th[t].summary))
    /\ UNCHANGED <<aux, session, questions, registry, engines, transcript, nreq, evicted>>

\* lines 224-230: del active_ai_sessions[key] (KeyError if already deleted)
e_del(t) ==
    /\ th[t].pc = "e_del"
    /\ IF registry[th[t].sess] = None
       THEN /\ Raise(t, "KeyError")
            /\ UNCHANGED <<registry, evicted>>
       ELSE /\ registry' = [registry EXCEPT ![th[t].sess] = None]
            /\ evicted' = evicted \cup {registry[th[t].sess]}
            /\ Finish(t, Ok(th[t].ret, "", th[t].summary))
    /\ UNCHANGED <<aux, session, questions, engines, transcript, nreq>>


\* ---------------------------------------------- calls into the engine
Me(t) == engines[th[t].eng]

SetMe(t, e) == engines' = [engines EXCEPT ![th[t].eng] = e]

Step(t, epc) == th' = [th EXCEPT ![t].epc = epc]

\* where the view continues after the engine call it is blocked in
NextPc(pc) ==
    CASE pc = "i_first" -> "i_save2" [] pc = "r_call" -> "r_save2" [] pc = "e_call" -> "e_save"
      [] pc = "d_call" -> "d_ret"

\* the engine method returns v to the view; e is the engine's final state
Return(t, e, v) ==
    /\ SetMe(t, IF th[t].pc \in {"i_first", "r_call"}
                THEN [e EXCEPT !.rets = Append(@, v)] ELSE e)
    /\ th' = [th EXCEPT ![t].pc = NextPc(th[t].pc), ![t].epc = "none", ![t].ret = v,
                        ![t].arg = "", ![t].q = "", ![t].ld = 0, ![t].first = FALSE]

\* MockAIInterviewer.get_ai_response, lines 218-222
m_user(t) ==
    /\ th[t].epc = "m_user"
    /\ SetMe(t, IF th[t].arg # ""
                THEN [Me(t) EXCEPT !.hist = Append(@, Msg("user", th[t].arg))]
                ELSE Me(t))
    /\ Step(t, "m_test")
    /\ UNCHANGED <<aux, session, questions, registry, transcript, nreq, evicted>>

\* m_test with <= for <: one fetch past the last question
m_test_inclusive(t) ==
    /\ th[t].epc = "m_test"
    /\ IF Me(t).idx <= Len(Me(t).questions)
       THEN Step(t, "m_fetch") /\ UNCHANGED engines
       ELSE Return(t, Me(t), MOCK_CLOSING_SENTENCE)
    /\ UNCHANGED <<aux, session, questions, registry, transcript, nreq, evicted>>

\* line 225 and the else branch, line 236
m_test(t) ==
    /\ th[t].epc = "m_test"
    /\ IF Me(t).idx < Len(Me(t).questions)
       THEN Step(t, "m_fetch") /\ UNCHANGED engines
       ELSE Return(t, Me(t), MOCK_CLOSING_SENTENCE)
    /\ UNCHANGED <<aux, session, questions, registry, transcript, nreq, evicted>>

\* a mock that reads the question after the one under the cursor
m_fetch_next(t) ==
    /\ th[t].epc = "m_fetch"
    /\ IF Me(t).idx + 1 >= Len(Me(t).questions)
       THEN Raise(t, "IndexError")
       ELSE th' = [th EXCEPT ![t].epc = "m_load", ![t].q = Me(t).questions[Me(t).idx + 2]]
    /\ UNCHANGED <<aux, session, questions, registry, engines, transcript, nreq, evicted>>

\* line 226: question = self.questions[self.current_question_index]
m_fetch(t) ==
    /\ th[t].epc = "m_fetch"
    /\ IF Me(t).idx >= Len(Me(t).questions)
       THEN Raise(t, "IndexError")
       ELSE th' = [th EXCEPT ![t].epc = "m_load", ![t].q = Me(t).questions[Me(t).idx + 1]]
    /\ UNCHANGED <<aux, session, questions, registry, engines, transcript, nreq, evicted>>

\* a mock whose increment starts from 0 instead of the cursor
m_load_zero(t) ==
    /\ th[t].epc = "m_load"
    /\ th' = [th EXCEPT ![t].epc = "m_store", ![t].ld = 0]
    /\ UNCHANGED <<aux, session, questions, registry, engines, transcript, nreq, evicted>>

\* line 227, self.current_question_index += 1: the read
m_load(t) ==
    /\ th[t].epc = "m_load"
    /\ th' = [th EXCEPT ![t].epc = "m_store", ![t].ld = Me(t).idx]
    /\ UNCHANGED <<aux, session, questions, registry, engines, transcript, nreq, evicted>>

\* m_store with the cursor left where it was
m_store_stuck(t) ==
    /\ th[t].epc = "m_store"
    /\ SetMe(t, [Me(t) EXCEPT !.idx = th[t].ld])
    /\ Step(t, "m_append")
    /\ UNCHANGED <<aux, session, questions, registry, transcript, nreq, evicted>>

\* line 227: the write
m_store(t) ==
    /\ th[t].epc = "m_store"
    /\ SetMe(t, [Me(t) EXCEPT !.idx = th[t].ld + 1])
    /\ Step(t, "m_append")
    /\ UNCHANGED <<aux, session, questions, registry, transcript, nreq, evicted>>

\* a mock whose conversation_history is one list shared by all its instances
m_append_shared(t) ==
    /\ th[t].epc = "m_append"
    /\ engines' = [i \in DOMAIN engines |->
                    IF engines[i].kind = "mock"
                    THEN [engines[i] EXCEPT
                            !.hist = Append(@, Msg("assistant", th[t].q)),
                            !.rets = IF i = th[t].eng THEN Append(@, th[t].q) ELSE @]
                    ELSE engines[i]]
    /\ th' = [th EXCEPT ![t].pc = NextPc(th[t].pc), ![t].epc = "none", ![t].ret = th[t].q,
                        ![t].arg = "", ![t].q = "", ![t].ld = 0, ![t].first = FALSE]
    /\ UNCHANGED <<aux, session, questions, registry, transcript, nreq, evicted>>

\* lines 229-234
m_append(t) ==
    /\ th[t].epc = "m_append"
    /\ Return(t, [Me(t) EXCEPT !.hist = Append(@, Msg("assistant", th[t].q))], th[t].q)
    /\ UNCHANGED <<aux, session, questions, registry, transcript, nreq, evicted>>

\* MockAIInterviewer.end_interview
me_append(t) ==
    /\ th[t].epc = "me_append"
    /\ Return(t, [Me(t) EXCEPT !.hist = Append(@, Msg("assistant", MOCK_VALEDICTION))],
              MOCK_VALEDICTION)
    /\ UNCHANGED <<aux, session, questions, registry, transcript, nreq, evicted>>

\* AIInterviewer.get_ai_response, lines 110-114
o_user(t) ==
    /\ th[t].epc = "o_user"
    /\ SetMe(t, IF th[t].arg # ""
                THEN [Me(t) EXCEPT !.hist = Append(@, Msg("user", th[t].arg))]
                ELSE Me(t))
    /\ Step(t, "o_call")
    /\ UNCHANGED <<aux, session, questions, registry, transcript, nreq, evicted>>

\* lines 116-125 and 135-137: the completion request, which may fail
o_call(t) ==
    /\ th[t].epc = "o_call"
    /\ \E ok \in BOOLEAN, pm \in ProviderErrors :
         IF ok
         THEN th' = [th EXCEPT ![t].epc = "o_append", ![t].q = PROVIDER_REPLY]
         ELSE ProviderFailure(t, pm)
    /\ UNCHANGED <<aux, session, questions, registry, engines, transcript, nreq, evicted>>

\* lines 128-133
o_append(t) ==
    /\ th[t].epc = "o_append"
    /\ Return(t, [Me(t) EXCEPT !.hist = Append(@, Msg("assistant", th[t].q))], th[t].q)
    /\ UNCHANGED <<aux, session, questions, registry, transcript, nreq, evicted>>

\* AIInterviewer.end_interview, lines 146-153: append the closing prompt,
\* then get_ai_response() with no student response
oe_user(t) ==
    /\ th[t].epc = "oe_user"
    /\ SetMe(t, [Me(t) EXCEPT !.hist = Append(@, Msg("user", WRAPUP_DIRECTIVE))])
    /\ Step(t, "o_call")
    /\ UNCHANGED <<aux, session, questions, registry, transcript, nreq, evicted>>

\* a Gemini engine that does not test self.chat before it sends
g_test_unguarded(t) ==
    /\ th[t].epc = "g_test"
    /\ th' = [th EXCEPT ![t].epc = "g_send",
                        ![t].arg = IF th[t].arg = "" THEN NEXT_DIRECTIVE ELSE th[t].arg,
                        ![t].first = (Me(t).hist = <<>>)]
    /\ UNCHANGED <<aux, session, questions, registry, engines, transcript, nreq, evicted>>

\* GeminiAIInterviewer.get_ai_response lines 154-161, end_interview lines
\* 170-175, then _send_message lines 119-122: is this the first message
g_test(t) ==
    /\ th[t].epc = "g_test"
    /\ IF ~Me(t).chat
       THEN IF th[t].act \in {"end", "end_interview"}
            THEN Return(t, Me(t), GEMINI_VALEDICTION)
            ELSE Raise(t, "Interview not initialized") /\ UNCHANGED engines
       ELSE /\ th' = [th EXCEPT ![t].epc = "g_send",
                                ![t].arg = IF th[t].arg = "" THEN NEXT_DIRECTIVE ELSE th[t].arg,
                                ![t].first = (Me(t).hist = <<>>)]
            /\ UNCHANGED engines
    /\ UNCHANGED <<aux, session, questions, registry, transcript, nreq, evicted>>

\* _send_message lines 125-126 and 140-142: the request, which may fail
g_send(t) ==
    /\ th[t].epc = "g_send"
    /\ \E ok \in BOOLEAN, pm \in ProviderErrors :
         IF ok
         THEN th' = [th EXCEPT ![t].epc = "g_app1", ![t].q = PROVIDER_REPLY]
         ELSE ProviderFailure(t, pm)
    /\ UNCHANGED <<aux, session, questions, registry, engines, transcript, nreq, evicted>>

\* a Gemini engine that records the message as it was sent, system prompt
\* included
g_app1_full(t) ==
    /\ th[t].epc = "g_app1"
    /\ SetMe(t, [Me(t) EXCEPT !.hist =
                    Append(@, Msg("user", IF th[t].first THEN Me(t).sys ELSE th[t].arg))])
    /\ Step(t, "g_app2")
    /\ UNCHANGED <<aux, session, questions, registry, transcript, nreq, evicted>>

\* lines 129-132
g_app1(t) ==
    /\ th[t].epc = "g_app1"
    /\ SetMe(t, [Me(t) EXCEPT !.hist = Append(@, Msg("user", th[t].arg))])
    /\ Step(t, "g_app2")
    /\ UNCHANGED <<aux, session, questions, registry, transcript, nreq, evicted>>

\* lines 133-138
g_app2(t) ==
    /\ th[t].epc = "g_app2"
    /\ Return(t, [Me(t) EXCEPT !.hist = Append(@, Msg("assistant", th[t].q)),
                               !.prompted = IF th[t].first THEN @ + 1 ELSE @],
              th[t].q)
    /\ UNCHANGED <<aux, session, questions, registry, transcript, nreq, evicted>>

\* ------------------------------------------- session lifecycle (views.py)
\* the answer of a start or end request on session s, status 200 or 400
Served(op, s, status) == [op |-> op, s |-> s, status |-> status, before |-> session[s]]

\* a start that does not look at the status
start_unconditional(s) ==
    /\ session' = [session EXCEPT ![s].status = "in_progress", ![s].started_at = Now]
    /\ life' = Served("start", s, 200)
    /\ UNCHANGED <<clock, prompt, probe, report, questions, registry, engines, transcript, th, nreq,
                   evicted>>

\* InterviewSessionViewSet.start, lines 41-57: only a scheduled session
\* starts; otherwise the answer is 400 and the row stays as it is
start(s) ==
    /\ IF session[s].status # "scheduled"
       THEN /\ life' = Served("start", s, 400)
            /\ UNCHANGED session
       ELSE /\ session' = [session EXCEPT ![s].status = "in_progress",
                                          ![s].started_at = Now]
            /\ life' = Served("start", s, 200)
    /\ UNCHANGED <<clock, prompt, probe, report, questions, registry, engines, transcript, th, nreq,
                   evicted>>

\* InterviewSessionViewSet.end, lines 59-75: only a session in progress ends
end(s) ==
    /\ IF session[s].status # "in_progress"
       THEN /\ life' = Served("end", s, 400)
            /\ UNCHANGED session
       ELSE /\ session' = [session EXCEPT ![s].status = "completed",
                                          ![s].ended_at = Now]
            /\ life' = Served("end", s, 200)
    /\ UNCHANGED <<clock, prompt, probe, report, questions, registry, engines, transcript, th, nreq,
                   evicted>>

\* --------------------------------------------------------- specifications
Handler(t) ==
    \/ i_start(t) \/ i_reg(t) \/ i_save1(t) \/ i_save2(t)
    \/ r_check(t) \/ r_get(t) \/ r_save1(t) \/ r_save2(t)
    \/ e_check(t) \/ e_get(t) \/ e_save(t) \/ e_summary(t) \/ e_del(t)
    \/ m_user(t) \/ m_test(t) \/ m_fetch(t) \/ m_load(t) \/ m_store(t)
    \/ m_append(t) \/ me_append(t)
    \/ o_user(t) \/ o_call(t) \/ o_append(t) \/ oe_user(t)
    \/ g_test(t) \/ g_send(t) \/ g_app1(t) \/ g_app2(t)

\* requests overlap freely: the threaded server
Next == \E t \in Threads : (nreq < MaxReq /\ post(t)) \/ Handler(t)

Spec == Init /\ [][Next]_vars

\* any two requests, overlapping freely
NextPair == \E t \in Threads : (nreq < MaxPairReq /\ post(t)) \/ Handler(t)

SpecPair == Init /\ [][NextPair]_vars

\* one request at a time, served by one worker: a client that waits for each
\* answer before it sends the next request
SeqThread == "t1"

NextSeq == (nreq < MaxSeqReq /\ post(SeqThread)) \/ Handler(SeqThread)

SpecSeq == Init /\ [][NextSeq]_vars

\* one orchestrator request at a time, while the session's row goes through
\* its lifecycle by the session endpoints; the row is created with any status
InitLife ==
    /\ InitAux
    /\ session \in [Sessions -> {NewSession(st) : st \in STATUS_CHOICES}]
    /\ questions \in [Sessions -> QuestionLists]
    /\ registry = [s \in Sessions |-> None]
    /\ engines = <<>>
    /\ transcript = [s \in Sessions |-> <<>>]
    /\ th = [t \in Threads |-> IdleLocals]
    /\ nreq = 0
    /\ evicted = {}

NextLife ==
    \/ nreq < MaxLifeReq /\ post(SeqThread)
    \/ Handler(SeqThread)
    \/ \E s \in Sessions : start(s) \/ end(s)

SpecLife == InitLife /\ [][NextLife]_vars

\* two sessions, each with the client that waits for its answers and the
\* worker that serves it: the requests of one session do not overlap, those
\* of different sessions overlap freely
Owner == [t \in Threads |-> IF t = "t1" THEN "s1" ELSE "s2"]

InitTwo ==
    /\ InitAux
    /\ session = [s \in Sessions \cup OtherSessions |-> NewSession("scheduled")]
    /\ questions \in [Sessions \cup OtherSessions -> QuestionLists]
    /\ registry = [s \in Sessions \cup OtherSessions |-> None]
    /\ engines = <<>>
    /\ transcript = [s \in Sessions \cup OtherSessions |-> <<>>]
    /\ th = [t \in Threads |-> IdleLocals]
    /\ nreq = 0
    /\ evicted = {}

NextTwo ==
    \E t \in Threads :
        \/ nreq < MaxTwoReq /\ post(t) /\ th'[t].sess = Owner[t]
        \/ Handler(t)

SpecTwo == InitTwo /\ [][NextTwo]_vars

\* ------------------------------------- the engine classes called directly
\* initialize_interview called on an engine object that is already in use
initialize_interview(e) ==
    /\ AllIdle
    /\ probe.n < MaxDirect
    /\ \E qs \in QuestionLists, ok \in BOOLEAN :
         LET r == InitializeOn(engines[e], qs, ok)
         IN  /\ engines' = [engines EXCEPT ![e] = [r.e EXCEPT !.rets = <<>>]]
             /\ probe' = [op |-> "initialize", eng |-> e, out |-> NoSummary, at |-> nreq,
                          again |-> FALSE, n |-> probe.n + 1]
    /\ UNCHANGED <<clock, prompt, life, report, session, questions, registry, transcript, th, nreq,
                   evicted>>

\* get_conversation_summary called on an engine object; again: the call
\* follows another one on the same object with no operation in between
get_conversation_summary(e) ==
    /\ AllIdle
    /\ probe.n < MaxDirect
    /\ LET r == GetConversationSummary(engines[e])
       IN  /\ engines' = [engines EXCEPT ![e] = r.e]
           /\ probe' = [op |-> "summary", eng |-> e, out |-> r.out, at |-> nreq,
                        again |-> probe.op = "summary" /\ probe.eng = e /\ probe.at = nreq,
                        n |-> probe.n + 1]
    /\ UNCHANGED <<clock, prompt, life, report, session, questions, registry, transcript, th, nreq,
                   evicted>>

\* GeminiAIInterviewer(), lines 30-44: a new object, not yet initialized
GeminiAIInterviewer ==
    /\ AllIdle
    /\ Len(engines) < MaxObjects
    /\ engines' = Append(engines, NewEngine("gemini"))
    /\ UNCHANGED <<aux, session, questions, registry, transcript, th, nreq, evicted>>

\* a caller other than the view enters method op of the engine object e
Call(op, e, epc, arg) ==
    /\ AllIdle
    /\ probe.n < MaxCalls
    /\ th' = [th EXCEPT ![SeqThread] =
                 [IdleLocals EXCEPT !.pc = "d_call", !.act = op, !.eng = e, !.epc = epc,
                                    !.arg = arg, !.msg = arg, !.calls = 1,
                                    !.h0 = Len(engines[e].hist)]]
    /\ probe' = [op |-> op, eng |-> e, out |-> NoSummary, at |-> nreq, again |-> FALSE,
                 n |-> probe.n + 1]
    /\ UNCHANGED <<clock, prompt, life, report, session, questions, registry, engines,
                   transcript, nreq, evicted>>

\* get_ai_response(student_response) called on an engine object
get_ai_response(e) ==
    \E sr \in StudentResponses :
        Call("get_ai_response", e, EntryRespond(engines[e].kind), sr)

\* end_interview() called on an engine object
end_interview(e) == Call("end_interview", e, EntryEnd(engines[e].kind), WRAPUP_DIRECTIVE)

\* the method returns its value to that caller
d_ret(t) ==
    /\ th[t].pc = "d_ret"
    /\ Finish(t, Ok(th[t].ret, "", NoSummary))
    /\ UNCHANGED <<aux, session, questions, registry, engines, transcript, nreq, evicted>>

\* Gemini engine objects constructed, initialized and called one call at a time
NextGemini ==
    \/ GeminiAIInterviewer
    \/ \E e \in 1..Len(engines) :
         initialize_interview(e) \/ get_ai_response(e) \/ end_interview(e)
    \/ g_test(SeqThread) \/ g_send(SeqThread) \/ g_app1(SeqThread) \/ g_app2(SeqThread)
    \/ d_ret(SeqThread)

SpecGemini == Init /\ [][NextGemini]_vars

\* requests one at a time, and between them direct calls on the engine objects
NextEngine ==
    \/ nreq < MaxEngReq /\ post(SeqThread)
    \/ Handler(SeqThread)
    \/ \E e \in 1..Len(engines) : initialize_interview(e) \/ get_conversation_summary(e)

SpecEngine == Init /\ [][NextEngine]_vars

\* ------------------------------------------- the prompt builders called
\* one call of a class's builder with the arguments in prompt
build_openai ==
    /\ prompt.n < MaxBuild
    /\ LET r == AIInterviewer_build_system_prompt(prompt.questions, prompt.context)
       IN  prompt' = [prompt EXCEPT !.openai = r.out, !.questions = r.questions,
                                    !.context = r.context, !.n = @ + 1]
    /\ UNCHANGED <<clock, probe, life, report, session, questions, registry, engines, transcript, th, nreq,
                   evicted>>

build_gemini ==
    /\ prompt.n < MaxBuild
    /\ LET r == GeminiAIInterviewer_build_system_prompt(prompt.questions, prompt.context)
       IN  prompt' = [prompt EXCEPT !.gemini = r.out, !.questions = r.questions,
                                    !.context = r.context, !.n = @ + 1]
    /\ UNCHANGED <<clock, probe, life, report, session, questions, registry, engines, transcript, th, nreq,
                   evicted>>

\* the builders applied to every question list and context
InitPrompt ==
    /\ clock = 0
    /\ probe = NoProbe
    /\ life = NoLife
    /\ report = NoReport
    /\ prompt \in {[NoPrompt EXCEPT !.questions = qs, !.context = c] :
                      qs \in QuestionLists, c \in Contexts}
    /\ session = [s \in Sessions |-> NewSession("scheduled")]
    /\ questions = [s \in Sessions |-> prompt.questions]
    /\ registry = [s \in Sessions |-> None]
    /\ engines = <<>>
    /\ transcript = [s \in Sessions |-> <<>>]
    /\ th = [t \in Threads |-> IdleLocals]
    /\ nreq = 0
    /\ evicted = {}

NextPrompt == build_openai \/ build_gemini

SpecPrompt == InitPrompt /\ [][NextPrompt]_vars

\* time passes
tick ==
    /\ clock < MaxTick
    /\ clock' = clock + 1
    /\ UNCHANGED <<prompt, probe, life, report, session, questions, registry, engines, transcript, th,
                   nreq, evicted>>

\* one request at a time while time passes between and within the requests
NextClock ==
    \/ nreq < MaxClockReq /\ post(SeqThread)
    \/ Handler(SeqThread)
    \/ tick

SpecClock == Init /\ [][NextClock]_vars

\* -------------------------------- InterviewReportViewSet.generate (views.py)
\* the InterviewReport rows of session s: hasattr(session, 'report')
ReportsOf(s) == {i \in 1..Len(report.rows) : report.rows[i].session = s}

\* the answer of the generate request thread t serves
GenAnswer(t, status, failed) ==
    [report.g[t] EXCEPT !.pc = "idle", !.status = status, !.failed = failed]

\* lines 187-209: validate session_id, look the session up, return the
\* report the session already has
generate(t) ==
    /\ report.g[t].pc = "idle"
    /\ report.n < MaxGen
    /\ \E sid \in SessionIds :
         LET me == [GenIdle EXCEPT !.sess = sid, !.rid = report.n + 1]
         IN  report' = [report EXCEPT
                 !.n = @ + 1,
                 !.g[t] = IF sid = "" THEN [me EXCEPT !.status = 400]
                          ELSE IF sid \notin Stored THEN [me EXCEPT !.status = 404]
                          ELSE IF ReportsOf(sid) # {} THEN [me EXCEPT !.status = 200]
                          ELSE [me EXCEPT !.pc = "render"]]
    /\ UNCHANGED <<clock, prompt, probe, life, session, questions, registry, engines,
                   transcript, th, nreq, evicted>>

\* line 213, pdf_file = generate_pdf_report(session): the renderer returns
\* the file or raises (utils.py 82-255), and the except of 224-229 answers 500
render(t) ==
    /\ report.g[t].pc = "render"
    /\ \E ok \in BOOLEAN :
         report' = [report EXCEPT
             !.runs = Append(@, [session |-> report.g[t].sess, by |-> report.g[t].rid,
                                 ok |-> ok]),
             !.g[t] = IF ok THEN [@ EXCEPT !.pc = "create"] ELSE GenAnswer(t, 500, TRUE)]
    /\ UNCHANGED <<clock, prompt, probe, life, session, questions, registry, engines,
                   transcript, th, nreq, evicted>>

\* lines 216-222, InterviewReport.objects.create: the one-to-one field of
\* models.py 96 is unique, so a second row for the session raises
\* IntegrityError, which the except of 224-229 answers with 500
create(t) ==
    /\ report.g[t].pc = "create"
    /\ report' = IF ReportsOf(report.g[t].sess) # {}
                 THEN [report EXCEPT !.g[t] = GenAnswer(t, 500, FALSE)]
                 ELSE [report EXCEPT
                          !.rows = Append(@, [session |-> report.g[t].sess,
                                              by |-> report.g[t].rid]),
                          !.g[t] = GenAnswer(t, 201, FALSE)]
    /\ UNCHANGED <<clock, prompt, probe, life, session, questions, registry, engines,
                   transcript, th, nreq, evicted>>

\* generate requests that overlap freely
NextReport == \E t \in Threads : generate(t) \/ render(t) \/ create(t)

SpecReport == Init /\ [][NextReport]_vars

\* --------------------------------------------------------------- helpers
\* positions of the rows request rid wrote to session s with this speaker
Rows(s, rid, speaker) ==
    {i \in 1..Len(transcript[s]) :
        transcript[s][i].req = rid /\ transcript[s][i].speaker = speaker}

Last(seq) == seq[Len(seq)]

\* the thread has answered a request of this action for a known session
Answered(t, a) == th[t].pc = "idle" /\ th[t].act = a /\ th[t].sess \in Sessions


\* ------------------------------------------------------------------ C1
\* C1: a respond request that reaches the engine has already written its
\* respondent row; when the engine call fails the request answers 500, its
\* respondent row is in the transcript and it has written no interviewer row.
RespondentSavedBeforeEngine ==
    \A t \in Threads :
        LET r == th[t]
            mine == Rows(r.sess, r.rid, "student")
            reply == Rows(r.sess, r.rid, "ai")
        IN  /\ (r.pc = "r_call")
                => /\ Cardinality(mine) = 1
                   /\ transcript[r.sess][CHOOSE i \in mine : TRUE].message = r.msg
                   /\ reply = {}
            /\ (Answered(t, "respond") /\ r.resp.status = 500 /\ r.resp.a # "KeyError")
                => Cardinality(mine) = 1 /\ reply = {}
            /\ (Answered(t, "respond") /\ mine # {} /\ r.resp.status # 200)
                => r.resp.status = 500 /\ reply = {}

\* a respond request whose provider call failed has been answered
RespondFailedAfterSave ==
    \E t \in Threads :
        /\ Answered(t, "respond")
        /\ th[t].resp.status = 500
        /\ th[t].resp.a = "AI service error"
        /\ Rows(th[t].sess, th[t].rid, "student") # {}

\* ------------------------------------------------------------------ C2
\* C2: a respond request (with a message) that finds no engine registered for
\* its session answers 400 "AI session not found", and that request writes no
\* transcript row and does not touch the registry or any engine.
RespondWithoutEngine ==
    /\ [](\A t \in Threads :
            (Answered(t, "respond") /\ th[t].resp.kind = "no_engine")
                => /\ th[t].resp.status = 400
                   /\ Rows(th[t].sess, th[t].rid, "student") = {}
                   /\ Rows(th[t].sess, th[t].rid, "ai") = {})
    /\ [][\A t \in Threads :
            (th[t].pc = "r_check" /\ th[t].msg # "" /\ registry[th[t].sess] = None
                /\ th'[t] # th[t])
                => /\ th'[t].pc = "idle"
                   /\ th'[t].resp.status = 400
                   /\ th'[t].resp.kind = "no_engine"
                   /\ UNCHANGED <<registry, engines, transcript>>]_vars

\* a respond was refused for a session whose engine an earlier end removed
RespondRefusedAfterEnd ==
    \E t \in Threads :
        /\ Answered(t, "respond")
        /\ th[t].resp.kind = "no_engine"
        /\ evicted # {}
        /\ registry[th[t].sess] = None

\* ------------------------------------------------------------------ C3
SameSpeaker(tr, i) == tr[i].speaker = tr[i + 1].speaker

\* C3 as stated: each transcript begins with two interviewer rows and from
\* the second row on no two consecutive rows have the same speaker.
StrictAlternation ==
    \A s \in Sessions :
        LET tr == transcript[s]
        IN  /\ Len(tr) >= 1 => tr[1].speaker = "ai"
            /\ Len(tr) >= 2 => tr[2].speaker = "ai"
            /\ \A i \in 2..(Len(tr) - 1) : ~SameSpeaker(tr, i)

\* C3 amended: each transcript begins with an interviewer row written by an
\* initialize, every row an initialize writes is an interviewer row, and two
\* consecutive rows have the same speaker only when both are respondent rows
\* of different requests and the first was left by a respond whose engine call
\* failed, or both are interviewer rows and the second was written by an
\* initialize or an end.
AlternationWithinResponds ==
    \A s \in Sessions :
        LET tr == transcript[s]
        IN  /\ Len(tr) >= 1 => tr[1].by = "initialize"
            /\ \A i \in 1..Len(tr) : tr[i].by = "initialize" => tr[i].speaker = "ai"
            /\ \A i \in 1..(Len(tr) - 1) :
                SameSpeaker(tr, i) =>
                    \/ /\ tr[i].speaker = "student"
                       /\ tr[i + 1].req # tr[i].req
                       /\ Rows(s, tr[i].req, "ai") = {}
                    \/ /\ tr[i].speaker = "ai"
                       /\ tr[i + 1].by \in {"initialize", "end"}

\* a failed respond was retried and the session was then ended: the
\* transcript holds two respondent rows in a row and ends with a reply
\* followed by the closing row
RepeatedSpeakers ==
    \E s \in Sessions :
        LET tr == transcript[s]
        IN  /\ \E i \in 1..(Len(tr) - 1) :
                tr[i].speaker = "student" /\ tr[i + 1].speaker = "student"
            /\ \E i \in 1..(Len(tr) - 1) :
                tr[i].by = "respond" /\ tr[i].speaker = "ai" /\ tr[i + 1].by = "end"


\* ------------------------------------------------------------------ C4
\* a request is past its read or write of the session's registry entry and
\* has not yet completed its last transcript append or engine call
InCritical(t) ==
    th[t].pc \in {"i_save1", "i_first", "i_save2",
                  "r_get", "r_save1", "r_call", "r_save2",
                  "e_get", "e_call", "e_save", "e_summary", "e_del"}

\* C4: no two requests for the same session are inside that region at the
\* same time.
SessionMutualExclusion ==
    \A t1, t2 \in Threads :
        (t1 # t2 /\ InCritical(t1) /\ InCritical(t2)) => th[t1].sess # th[t2].sess

\* ------------------------------------------------------------------ C5
\* C5: two respond requests on one session never both fetch the same question
\* from the engine's cursor, and the respondent row of a respond that got its
\* reply is never directly followed by a row of another respond.
RespondsNotInterleaved ==
    /\ \A t1, t2 \in Threads :
        (/\ t1 # t2
         /\ th[t1].pc = "r_call" /\ th[t2].pc = "r_call"
         /\ th[t1].eng = th[t2].eng
         /\ engines[th[t1].eng].kind = "mock"
         /\ th[t1].q # "" /\ th[t2].q # "")
            => th[t1].q # th[t2].q
    /\ \A s \in Sessions :
        LET tr == transcript[s]
        IN  \A i \in 1..(Len(tr) - 1) :
                (/\ tr[i].by = "respond" /\ tr[i].speaker = "student"
                 /\ tr[i + 1].by = "respond"
                 /\ Rows(s, tr[i].req, "ai") # {})
                    => tr[i + 1].req = tr[i].req

\* ------------------------------------------------------------------ C6
\* C6: once an end has removed an engine from the registry, a respond that
\* holds that engine takes no step that appends a transcript row or changes
\* the engine.
EndExcludesRespond ==
    [][\A t \in Threads :
        (/\ th[t].act = "respond"
         /\ th[t].eng # None
         /\ th[t].eng \in evicted
         /\ th'[t] # th[t])
            => /\ transcript' = transcript
               /\ engines'[th[t].eng] = engines[th[t].eng]]_vars

\* ------------------------------------------------------------------ C7
\* C7: a successful end writes exactly one row, an interviewer row holding the
\* closing message it returns, returns the engine's summary and leaves no
\* engine registered; until an initialize writes again, every respond (with a
\* message) and every end is refused with 400 "AI session not found".
EndClosesSession ==
    /\ [](\A t \in {SeqThread} :
            LET r == th[t]
                tr == transcript[r.sess]
            IN  /\ (Answered(t, "end") /\ r.resp.status = 200)
                    => /\ Rows(r.sess, r.rid, "student") = {}
                       /\ Cardinality(Rows(r.sess, r.rid, "ai")) = 1
                       /\ Last(tr).req = r.rid
                       /\ Last(tr).message = r.resp.a
                       /\ registry[r.sess] = None
                /\ (/\ r.pc = "idle" /\ r.sess \in Sessions
                    /\ tr # <<>> /\ Last(tr).by = "end")
                    => /\ registry[r.sess] = None
                       /\ (r.rid > Last(tr).req /\ r.act = "end")
                            => r.resp.kind = "no_engine" /\ r.resp.status = 400
                       /\ (r.rid > Last(tr).req /\ r.act = "respond" /\ r.resp.kind # "validation")
                            => r.resp.kind = "no_engine" /\ r.resp.status = 400)
    /\ [][\A t \in {SeqThread} :
            (th[t].pc = "e_del" /\ th'[t].pc = "idle")
                => /\ th'[t].resp.status = 200
                   /\ th'[t].resp.summary = Summary(engines[th[t].eng])
                   /\ registry'[th[t].sess] = None]_vars

\* after a successful end both a respond and an end have been refused
RefusedAfterEnd ==
    /\ Answered(SeqThread, "end")
    /\ th[SeqThread].resp.kind = "no_engine"
    /\ transcript[th[SeqThread].sess] # <<>>
    /\ Last(transcript[th[SeqThread].sess]).by = "end"
    /\ th[SeqThread].rid > Last(transcript[th[SeqThread].sess]).req


\* ------------------------------------------------------------------ C8
\* position of the opening row of the latest initialize of session s, 0 if none
LastOpening(s) ==
    LET tr == transcript[s]
        o == {i \in 1..Len(tr) : tr[i].by = "initialize" /\ tr[i].question = 0}
    IN  IF o = {} THEN 0 ELSE CHOOSE i \in o : \A j \in o : j <= i

\* the rows of session s from the opening row of its latest initialize on
Segment(s) == SubSeq(transcript[s], LastOpening(s), Len(transcript[s]))

\* the engine built by request rid, None if it built none
EngineOf(rid) ==
    LET es == {e \in 1..Len(engines) : engines[e].creator = rid}
    IN  IF es = {} THEN None ELSE CHOOSE e \in es : TRUE

\* the rows since the latest initialize were written through the mock engine
Scripted(s) ==
    /\ LastOpening(s) > 0
    /\ EngineOf(transcript[s][LastOpening(s)].req) # None
    /\ engines[EngineOf(transcript[s][LastOpening(s)].req)].kind = "mock"

\* C8: between requests, the rows written since an initialize that chose the
\* mock engine are: the greeting; question 1, linked to the first Question;
\* then for the k-th respond a respondent row with its message and an
\* interviewer row holding question k+1 if k < N and the closing sentence
\* otherwise; then, if the session was ended, one interviewer row holding the
\* valediction and nothing after it.
ScriptedTranscript ==
    \A s \in Sessions :
        (th[SeqThread].pc = "idle" /\ Scripted(s)) =>
            LET seg == Segment(s)
                qs == questions[s]
                N == Len(qs)
                ended == Len(seg) > 2 /\ Last(seg).by = "end"
                turns == SubSeq(seg, 3, IF ended THEN Len(seg) - 1 ELSE Len(seg))
            IN  /\ Len(seg) >= 2
                /\ seg[1].speaker = "ai" /\ seg[1].message = MOCK_GREETING
                /\ seg[2].speaker = "ai" /\ seg[2].message = qs[1]
                /\ seg[2].question = 1 /\ seg[2].req = seg[1].req
                /\ Len(turns) % 2 = 0
                /\ \A k \in 1..(Len(turns) \div 2) :
                    /\ turns[2 * k - 1].speaker = "student"
                    /\ turns[2 * k - 1].by = "respond"
                    /\ turns[2 * k - 1].message \in StudentResponses \ {""}
                    /\ turns[2 * k].speaker = "ai"
                    /\ turns[2 * k].req = turns[2 * k - 1].req
                    /\ turns[2 * k].message =
                         IF k < N THEN qs[k + 1] ELSE MOCK_CLOSING_SENTENCE
                /\ ended => /\ Last(seg).speaker = "ai"
                            /\ Last(seg).message = MOCK_VALEDICTION

\* a two-question scripted interview: the first respond got question 2, the
\* second the closing sentence, and the session was ended
ScriptedInterviewCompleted ==
    \E s \in Sessions :
        /\ th[SeqThread].pc = "idle" /\ Scripted(s)
        /\ Len(questions[s]) = 2
        /\ Len(Segment(s)) = 7
        /\ Segment(s)[4].message = questions[s][2]
        /\ Segment(s)[6].message = MOCK_CLOSING_SENTENCE
        /\ Segment(s)[7].by = "end"

\* ------------------------------------------------------------------ C9
MockEngines == {e \in 1..Len(engines) : engines[e].kind = "mock"}

\* the values get_ai_response returned to respond requests: all but the
\* first, which went to the first-question call of initialize
RespondReturns(e) == SubSeq(engines[e].rets, 2, Len(engines[e].rets))

\* C9 as stated: leaving out the first-question call of initialize, the k-th
\* call returns question k for k <= N and the closing sentence after that.
ScriptedRespondsReturnAllQuestions ==
    \A e \in MockEngines :
        \A k \in 1..Len(RespondReturns(e)) :
            RespondReturns(e)[k] =
                IF k <= Len(engines[e].questions)
                THEN engines[e].questions[k] ELSE MOCK_CLOSING_SENTENCE

\* C9 amended: counting the first-question call of initialize as call 1, the
\* k-th call to get_ai_response returns question k for k <= N and the closing
\* sentence for every k > N; no respond on a registered mock engine answers
\* with an error.
ScriptedCallsReturnQuestionsOnce ==
    /\ \A e \in MockEngines :
        \A k \in 1..Len(engines[e].rets) :
            engines[e].rets[k] =
                IF k <= Len(engines[e].questions)
                THEN engines[e].questions[k] ELSE MOCK_CLOSING_SENTENCE
    /\ (/\ Answered(SeqThread, "respond")
        /\ registry[th[SeqThread].sess] \in MockEngines
        /\ th[SeqThread].resp.kind # "validation")
            => th[SeqThread].resp.status = 200

\* a mock engine has run out of questions and returned the closing sentence
\* to two responds in a row
ClosingSentenceRepeated ==
    \E e \in MockEngines :
        LET r == engines[e].rets
        IN  /\ Len(r) >= Len(engines[e].questions) + 2
            /\ r[Len(r)] = MOCK_CLOSING_SENTENCE
            /\ r[Len(r) - 1] = MOCK_CLOSING_SENTENCE
            /\ Answered(SeqThread, "respond")
            /\ th[SeqThread].resp.a = MOCK_CLOSING_SENTENCE

\* ----------------------------------------------------------------- C10
\* the request that wrote the latest initialize row of session s
LastInitializer(s) == transcript[s][LastOpening(s)].req

\* C10: between requests the engine registered for a session is the one built
\* by the latest initialize that registered (the one whose rows are the latest
\* initialize rows of the transcript), and only an engine that is registered
\* at that moment is ever changed: an engine that was overwritten is never
\* driven again.
ReinitializeOverwrites ==
    /\ [](\A s \in Sessions :
            (th[SeqThread].pc = "idle" /\ registry[s] # None)
                => /\ LastOpening(s) > 0
                   /\ engines[registry[s]].creator = LastInitializer(s))
    /\ [][\A e \in 1..Len(engines) :
            engines'[e] # engines[e] => \E s \in Sessions : registry[s] = e]_vars

\* a second initialize replaced a live engine and a respond then drove the
\* new engine
SecondEngineDriven ==
    \E s \in Sessions :
        /\ th[SeqThread].pc = "idle"
        /\ evicted = {}
        /\ registry[s] = 2
        /\ \E i \in 1..Len(engines[2].hist) :
             engines[2].hist[i] = Msg("user", "answer")

\* ------------------------------------------------------------------ C11
\* the engines the request rid constructed and initialised
EnginesOf(rid) == {e \in 1..Len(engines) : engines[e].creator = rid}

\* the request obtained neither provider engine
NoProvider(r) == r.sel.gemini = "absent" /\ r.sel.openai = "absent"

\* C11: an initialize on a session with at least one question that obtains
\* neither provider engine (constructor failed or key not configured) answers
\* 200, the engine it registered is the scripted one, and the ai_message it
\* returns is the scripted engine's fixed greeting.
ScriptedFallback ==
    \A t \in Threads :
        (Answered(t, "initialize") /\ questions[th[t].sess] # <<>> /\ NoProvider(th[t]))
            => /\ th[t].resp.status = 200
               /\ th[t].resp.a = MOCK_GREETING
               /\ \E e \in EnginesOf(th[t].rid) :
                    /\ engines[e].kind = "mock"
                    /\ registry[th[t].sess] = e

\* an initialize without any provider engine has been answered
FallbackInitialized ==
    \E t \in Threads :
        /\ Answered(t, "initialize")
        /\ NoProvider(th[t])
        /\ th[t].resp.kind = "ok"
        /\ Len(transcript[th[t].sess]) >= 2

\* ------------------------------------------------------------------ C12
\* C12: the engine an initialize constructs is Gemini exactly when the Gemini
\* engine was obtained, OpenAI exactly when the OpenAI engine was obtained,
\* which happens only without a Gemini engine, and the scripted engine
\* exactly when neither was obtained; an initialize whose engine fails in
\* initialize_interview had obtained a provider engine.
SelectionOrder ==
    \A t \in Threads :
        LET r == th[t]
        IN  /\ r.sel.openai = "built" => r.sel.gemini = "absent"
            /\ \A e \in EnginesOf(r.rid) :
                 /\ r.act = "initialize"
                 /\ engines[e].kind = "gemini" <=> r.sel.gemini = "built"
                 /\ engines[e].kind = "openai" <=> r.sel.openai = "built"
                 /\ engines[e].kind = "mock" <=> NoProvider(r)
            /\ (Answered(t, "initialize") /\ EnginesOf(r.rid) = {} /\ r.resp.status = 500)
                 => ~NoProvider(r)

\* an initialize answered with an OpenAI engine, Gemini not being obtained
OpenAISecondChoice ==
    \E t \in Threads :
        /\ Answered(t, "initialize")
        /\ th[t].resp.kind = "ok"
        /\ th[t].sel.gemini = "absent"
        /\ \E e \in EnginesOf(th[t].rid) : engines[e].kind = "openai"

\* ------------------------------------------------------------------ C13
\* C13: for every engine object, of any class, and between any two calls,
\* the summary's total_messages equals student_messages + ai_messages.
SummaryTotalsAddUp ==
    \A e \in 1..Len(engines) :
        (\A t \in Threads : th[t].pc = "idle")
            => LET sm == Summary(engines[e])
               IN  sm.total_messages = sm.student_messages + sm.ai_messages

\* ------------------------------------------------------------------ C14
\* the request rid has written no transcript row of session s
NoRows(s, rid) == \A i \in 1..Len(transcript[s]) : transcript[s][i].req # rid

\* C14: an initialize on a session without questions answers 400 "No
\* questions found for this session"; that request attempts no engine
\* constructor, creates no engine, writes no transcript row and leaves the
\* registry as it was.
NoQuestionsRejected ==
    /\ [](\A t \in Threads :
            (Answered(t, "initialize") /\ questions[th[t].sess] = <<>>)
                => /\ th[t].resp.status = 400
                   /\ th[t].resp.kind = "no_questions"
                   /\ th[t].sel = NoAttempts
                   /\ EnginesOf(th[t].rid) = {}
                   /\ NoRows(th[t].sess, th[t].rid))
    /\ [][\A t \in Threads :
            (th[t].pc = "i_start" /\ questions[th[t].sess] = <<>> /\ th'[t] # th[t])
                => /\ th'[t].pc = "idle"
                   /\ th'[t].resp.kind = "no_questions"
                   /\ UNCHANGED <<registry, engines, transcript>>]_vars

\* an initialize was refused for want of questions, a second time
InitializeRefusedTwice ==
    \E t \in Threads :
        /\ Answered(t, "initialize")
        /\ th[t].resp.kind = "no_questions"
        /\ th[t].rid >= 2
        /\ engines = <<>>

\* ------------------------------------------------------------------ C15
\* C15: an end request that finds no engine registered for its session
\* answers 400 "AI session not found"; that request writes no transcript row
\* and leaves the registry and every engine as they were.
EndWithoutEngine ==
    /\ [](\A t \in Threads :
            (Answered(t, "end") /\ th[t].resp.kind = "no_engine")
                => /\ th[t].resp.status = 400
                   /\ th[t].calls = 0
                   /\ NoRows(th[t].sess, th[t].rid))
    /\ [][\A t \in Threads :
            (th[t].pc = "e_check" /\ registry[th[t].sess] = None /\ th'[t] # th[t])
                => /\ th'[t].pc = "idle"
                   /\ th'[t].resp.status = 400
                   /\ th'[t].resp.kind = "no_engine"
                   /\ UNCHANGED <<registry, engines, transcript>>]_vars

\* an end was refused for a session that was never initialized
EndRefusedBeforeInitialize ==
    \E t \in Threads :
        /\ Answered(t, "end")
        /\ th[t].resp.kind = "no_engine"
        /\ engines = <<>>
        /\ transcript[th[t].sess] = <<>>

\* ------------------------------------------------------------------ C16
\* the assistant entries of an engine's history, in order
AssistantSaid(e) == SelectSeq(engines[e].hist, LAMBDA m : m.role = "assistant")

\* C16: when an initialize has answered 200, the rows it wrote are exactly
\* the last two rows of the session's transcript, both interviewer rows: the
\* engine's opening message with no question, then what the engine returned
\* to the first-question call, linked to the session's first question; the
\* response carries the two messages and the engine the request built is the
\* one registered for the session.
InitializeAppendsTwo ==
    \A t \in Threads :
        (Answered(t, "initialize") /\ th[t].resp.status = 200)
            => LET tr == transcript[th[t].sess]
                   n == Len(tr)
                   e == registry[th[t].sess]
               IN  /\ n >= 2
                   /\ {i \in 1..n : tr[i].req = th[t].rid} = {n - 1, n}
                   /\ e \in EnginesOf(th[t].rid)
                   /\ tr[n - 1].speaker = "ai" /\ tr[n].speaker = "ai"
                   /\ tr[n - 1].question = None /\ tr[n].question = 1
                   /\ tr[n - 1].message = AssistantSaid(e)[1].content
                   /\ tr[n].message = engines[e].rets[1]
                   /\ th[t].resp.a = tr[n - 1].message
                   /\ th[t].resp.b = tr[n].message

\* a second initialize of a session has added its two rows to the first two
ReinitializeAppended ==
    \E t \in Threads :
        /\ Answered(t, "initialize")
        /\ th[t].resp.status = 200
        /\ Len(transcript[th[t].sess]) = 4
        /\ transcript[th[t].sess][2].by = "initialize"

\* ------------------------------------------------------------------ C17
\* C17: a request in which a provider call raised, inside initialize_interview,
\* get_ai_response or end_interview of a provider engine, has been answered:
\* with status 500 and an error body whose text is the engine's one error
\* kind, "AI service error", carrying the provider's message; and only such
\* requests are answered with that error kind.
ProviderFailureWrapped ==
    \A t \in Threads :
        /\ th[t].perr # ""
             => /\ th[t].pc = "idle"
                /\ th[t].resp.status = 500
                /\ th[t].resp.kind = "error"
                /\ th[t].resp.a = "AI service error"
                /\ th[t].resp.detail = th[t].perr
                /\ \/ ~NoProvider(th[t])
                   \/ th[t].act # "initialize" /\ engines[registry[th[t].sess]].kind # "mock"
        /\ th[t].resp.a = "AI service error" => th[t].perr \in ProviderErrors

\* an end request whose provider call raised has been answered
EndProviderFailed ==
    \E t \in Threads :
        /\ Answered(t, "end")
        /\ th[t].perr # ""
        /\ th[t].resp.status = 500

\* ------------------------------------------------------------------ C18
\* C18: a respond request calls the engine's get_ai_response at most once and
\* an end request calls end_interview at most once; exactly once when the
\* request succeeded and when the provider call failed.
NoRetry ==
    \A t \in Threads :
        th[t].act \in {"respond", "end"}
            => /\ th[t].calls <= 1
               /\ (th[t].pc = "idle" /\ th[t].resp.status = 200) => th[t].calls = 1
               /\ th[t].perr # "" => th[t].calls = 1

\* a respond to a Gemini engine failed in its one provider call
FailedRespondCalledOnce ==
    \E t \in Threads :
        /\ Answered(t, "respond")
        /\ th[t].perr # ""
        /\ th[t].calls = 1
        /\ engines[registry[th[t].sess]].kind = "gemini"

\* ------------------------------------------------------------------ C19
\* C19: whatever the status of the session's row, a respond (with a message)
\* and an end are refused with "AI session not found" exactly when no engine
\* is registered for the session, and a respond that finds an engine answers
\* 200 unless the provider call fails; no step of initialize, respond or end
\* changes the row's status, started_at or ended_at.
StatusBlind ==
    /\ [](\A t \in Threads :
            (Answered(t, "respond") /\ th[t].msg # "")
                => IF registry[th[t].sess] = None
                   THEN th[t].resp.kind = "no_engine"
                   ELSE th[t].resp.status = 200 \/ th[t].perr # "")
    /\ [][\A t \in Threads :
            (th[t].pc \in {"r_check", "e_check"} /\ th'[t] # th[t]
                /\ (th[t].pc = "r_check" => th[t].msg # ""))
                => /\ th'[t].pc = "idle" <=> registry[th[t].sess] = None
                   /\ th'[t].resp.kind = "no_engine" <=> registry[th[t].sess] = None]_vars
    /\ [][th' # th => session' = session]_vars

\* a respond was answered 200 for a session whose row had been ended
RespondedAfterSessionEnded ==
    \E t \in Threads :
        /\ Answered(t, "respond")
        /\ th[t].resp.status = 200
        /\ session[th[t].sess].status = "completed"
        /\ session[th[t].sess].ended_at = Now

\* ------------------------------------------------------------------ C20
\* the request of thread t was stopped before it wrote a row or called an engine
StoppedEarly(t) ==
    /\ th[t].calls = 0
    /\ \A s \in Sessions : NoRows(s, th[t].rid)

TranscriptAppendOnly ==
    /\ [](\A s \in Sessions :
            \A i \in 1..(Len(transcript[s]) - 1) :
                transcript[s][i].timestamp <= transcript[s][i + 1].timestamp)
    /\ [][\A s \in Sessions :
            /\ Len(transcript'[s]) >= Len(transcript[s])
            /\ SubSeq(transcript'[s], 1, Len(transcript[s])) = transcript[s]]_vars

\* an end appended its row later than the time of the first row
TranscriptSpansTime ==
    \E s \in Sessions :
        /\ Len(transcript[s]) >= 3
        /\ Last(transcript[s]).by = "end"
        /\ transcript[s][1].timestamp < Last(transcript[s]).timestamp

Called(op) == probe'.n = probe.n + 1 /\ probe'.op = op

\* C23: after initialize_interview returns on an engine object already in
\* use, the object's history is the one the same call leaves on a new object
\* of the class: nothing from before the call is in it.
InitializeResetsHistory ==
    [][Called("initialize")
        => \E qs \in QuestionLists, ok \in BOOLEAN :
             engines'[probe'.eng].hist
                = InitializeOn(NewEngine(engines[probe'.eng].kind), qs, ok).e.hist]_vars

\* ------------------------------------------------------------------ C27
\* C27: a call of get_conversation_summary, made directly or by an end
\* request, leaves every engine object as it was and returns the counts and
\* the history of the object; a call that follows another one on the same
\* object with no operation in between returns what the first returned.
SummaryIsPureRead ==
    [][/\ Called("summary")
            => /\ engines' = engines
               /\ probe'.out.conversation = engines[probe'.eng].hist
               /\ probe'.again => probe'.out = probe.out
       /\ \A t \in Threads :
            (th[t].pc = "e_summary" /\ th'[t].pc = "e_del")
                => /\ engines' = engines
                   /\ th'[t].summary.conversation = engines[th[t].eng].hist]_vars

\* the summary of an engine with some history was taken twice in a row
SummaryTakenTwice ==
    /\ probe.op = "summary"
    /\ probe.again
    /\ probe.out.total_messages >= 2

\* ------------------------------------------------------------------ C24
\* C24: the registry changes only in the step of an initialize that stores
\* its engine under the session key and in the step of an end that deletes
\* the entry and then answers 200; no step of a respond changes it, and from
\* the time a respond has fetched the engine until it is answered that
\* engine is the one registered for its session.
RegistryChangesOnly ==
    /\ [](\A t \in Threads :
            (th[t].act = "respond" /\ th[t].pc \in {"r_save1", "r_call", "r_save2"})
                => registry[th[t].sess] = th[t].eng)
    /\ [][\A t \in Threads :
            th'[t] # th[t]
                => /\ th'[t].act = "respond" => registry' = registry
                   /\ registry' # registry
                        => \/ /\ th[t].pc = "i_reg"
                              /\ registry' = [registry EXCEPT ![th[t].sess] = th[t].eng]
                           \/ /\ th[t].pc = "e_del"
                              /\ registry' = [registry EXCEPT ![th[t].sess] = None]
                              /\ th'[t].resp.status = 200]_vars

\* a respond to an OpenAI engine failed and the engine is still registered
RespondFailedEngineKept ==
    \E t \in Threads :
        /\ Answered(t, "respond")
        /\ th[t].resp.status = 500
        /\ registry[th[t].sess] # None
        /\ engines[registry[th[t].sess]].kind = "openai"

\* ------------------------------------------------------------------ C25
\* thread t has answered a respond with a message, and the request before it
\* was an initialize of the same session that succeeded (it wrote the row of
\* the first question, its last step before the 200 answer)
RespondedAfterInitialize(t) ==
    /\ Answered(t, "respond")
    /\ th[t].msg # ""
    /\ \E i \in 1..Len(transcript[th[t].sess]) :
         /\ transcript[th[t].sess][i].req = th[t].rid - 1
         /\ transcript[th[t].sess][i].by = "initialize"
         /\ transcript[th[t].sess][i].question = 1

\* C25 as stated: the respond that follows a successful initialize succeeds
\* and appends a respondent row and an interviewer row.
RespondSucceedsAfterInitialize ==
    \A t \in Threads :
        RespondedAfterInitialize(t)
            => /\ th[t].resp.status = 200
               /\ Rows(th[t].sess, th[t].rid, "student") # {}
               /\ Rows(th[t].sess, th[t].rid, "ai") # {}

\* C25 amended: the respond that follows a successful initialize is not
\* refused for want of an engine and appends its respondent row; unless the
\* provider call fails it answers 200 and appends the interviewer row with
\* the reply, and when the provider call fails it answers 500 and appends no
\* interviewer row.
RespondFindsEngineAfterInitialize ==
    \A t \in Threads :
        RespondedAfterInitialize(t)
            => LET tr == transcript[th[t].sess]
               IN  /\ th[t].resp.kind # "no_engine"
                   /\ Cardinality(Rows(th[t].sess, th[t].rid, "student")) = 1
                   /\ th[t].perr = ""
                        => /\ th[t].resp.status = 200
                           /\ Rows(th[t].sess, th[t].rid, "ai") = {Len(tr)}
                           /\ Last(tr).message = th[t].resp.a
                           /\ tr[Len(tr) - 1].speaker = "student"
                           /\ tr[Len(tr) - 1].message = th[t].msg
                   /\ th[t].perr # ""
                        => /\ th[t].resp.status = 500
                           /\ Rows(th[t].sess, th[t].rid, "ai") = {}

\* a session that had been ended was initialized again and then answered a respond
RecoveredAfterEnd ==
    \E t \in Threads :
        /\ RespondedAfterInitialize(t)
        /\ th[t].resp.status = 200
        /\ evicted # {}

\* ------------------------------------------------------------------ C26
\* p is the prompt of the questions qs and the context c: the preamble; the
\* context header and one line per item in insertion order exactly when c
\* is a non-empty mapping; the questions header and the questions numbered
\* 1..N in their order; and nothing else
WellFormedPrompt(p, qs, c) ==
    LET block == c.given /\ Len(c.items) > 0
        base == IF block THEN 2 + Len(c.items) ELSE 1
    IN  /\ Len(p) = base + 1 + Len(qs)
        /\ p[1] = PREAMBLE
        /\ block => /\ p[2] = CONTEXT_HEADER
                    /\ \A i \in 1..Len(c.items) :
                         p[2 + i] = <<"- ", c.items[i][1], ": ", c.items[i][2]>>
        /\ \A i \in 1..Len(p) : p[i] = CONTEXT_HEADER => block /\ i = 2
        /\ p[base + 1] = QUESTIONS_HEADER
        /\ \A i \in 1..Len(qs) : p[base + 1 + i] = <<i, ". ", qs[i]>>

\* C26: every prompt a builder has returned is the well-formed prompt of its
\* arguments; the two classes' builders return the same prompt for the same
\* arguments; a call leaves its arguments as they were, and a repeated call
\* returns what the call before returned.
PromptBuilderPure ==
    /\ [](/\ prompt.openai # <<>>
               => WellFormedPrompt(prompt.openai, prompt.questions, prompt.context)
          /\ prompt.gemini # <<>>
               => WellFormedPrompt(prompt.gemini, prompt.questions, prompt.context)
          /\ (prompt.openai # <<>> /\ prompt.gemini # <<>>)
               => prompt.openai = prompt.gemini)
    /\ [][/\ prompt'.questions = prompt.questions
          /\ prompt'.context = prompt.context
          /\ prompt.openai # <<>> => prompt'.openai = prompt.openai
          /\ prompt.gemini # <<>> => prompt'.gemini = prompt.gemini]_vars

\* both builders were called on two questions and a context of two items
PromptsBuilt ==
    /\ prompt.openai # <<>>
    /\ prompt.gemini # <<>>
    /\ Len(prompt.questions) >= 2
    /\ Len(prompt.context.items) = 2

\* ------------------------------------------------------------------ C28
\* C28: the engine an initialize builds is in the registry only once that
\* request has written both its opening rows, and an initialize that did not
\* answer 200 has left no engine of its own registered for the session.
RegisteredAfterOpeningRows ==
    \A t \in Threads :
        LET mine == {i \in 1..Len(transcript[th[t].sess]) :
                        transcript[th[t].sess][i].req = th[t].rid}
        IN  (th[t].act = "initialize" /\ th[t].sess \in Stored
                /\ registry[th[t].sess] \in EnginesOf(th[t].rid))
                => /\ Cardinality(mine) = 2
                   /\ th[t].pc = "idle" => th[t].resp.status = 200

\* ------------------------------------------------------------------ C29
\* C29: when the provider request of a respond or an end has failed, the
\* engine's history is the one it had when the view called the engine.
FailedCallLeavesHistory ==
    \A t \in Threads :
        (Answered(t, "respond") \/ Answered(t, "end")) /\ th[t].perr # ""
            => Len(engines[registry[th[t].sess]].hist) = th[t].h0

\* ------------------------------------------------------------------ C30
\* C30: an end whose provider call failed is answered 500, has written no
\* transcript row and has left the engine registered; the end or respond
\* that follows it on the session is not refused for want of an engine, and
\* unless it is refused for an empty message it calls the engine.
EndFailureKeepsEngine ==
    \A t \in Threads :
        /\ (Answered(t, "end") /\ th[t].perr # "")
              => /\ th[t].resp.status = 500
                 /\ NoRows(th[t].sess, th[t].rid)
                 /\ registry[th[t].sess] # None
                 /\ registry[th[t].sess] \notin evicted
        /\ (th[t].after = "end_failed" /\ th[t].act \in {"respond", "end"})
              => /\ th[t].resp.kind # "no_engine"
                 /\ (th[t].pc = "idle" /\ th[t].resp.kind # "validation")
                      => th[t].calls = 1

\* an end failed in its provider call and the end sent again succeeded
EndRetried ==
    \E t \in Threads :
        /\ Answered(t, "end")
        /\ th[t].after = "end_failed"
        /\ th[t].resp.status = 200
\* ------------------------------------------------------------------ C31
\* C31: the summary a successful end returns counts as respondent messages
\* the respondent rows, and as interviewer messages the interviewer rows
\* (the closing row included), that the session's transcript holds since
\* the opening row of its latest initialize.
SummaryAgreesWithTranscript ==
    \A t \in Threads :
        (Answered(t, "end") /\ th[t].resp.status = 200 /\ LastOpening(th[t].sess) > 0)
            => LET tr == transcript[th[t].sess]
                   since == LastOpening(th[t].sess)..Len(tr)
               IN  /\ th[t].resp.summary.student_messages
                         = Cardinality({i \in since : tr[i].speaker = "student"})
                   /\ th[t].resp.summary.ai_messages
                         = Cardinality({i \in since : tr[i].speaker = "ai"})
\* ------------------------------------------------------------------ C32
\* C32: of two end requests that run at the same time on one engine, only
\* one gets as far as having saved the closing message; and once an end has
\* removed the engine from the registry, another end that holds that engine
\* appends no row and, when it answers without a provider failure, answers
\* 400 "AI session not found".
ConcurrentEndsCloseOnce ==
    /\ [](\A t, u \in Threads :
            (/\ t # u
             /\ th[t].act = "end" /\ th[u].act = "end"
             /\ th[t].eng # None /\ th[t].eng = th[u].eng)
                => ~(/\ th[t].pc \in {"e_summary", "e_del"}
                     /\ th[u].pc \in {"e_summary", "e_del"}))
    /\ [][\A u \in Threads :
            (/\ th[u].act = "end"
             /\ th[u].eng # None
             /\ th[u].eng \in evicted
             /\ th'[u] # th[u])
                => /\ transcript' = transcript
                   /\ (th'[u].pc = "idle" /\ th'[u].perr = "")
                        => th'[u].resp.kind = "no_engine"]_vars
\* ------------------------------------------------------------------ C33
\* the questions among the values an engine's get_ai_response returned
Asked(e) == SelectSeq(e.rets, LAMBDA v : v # MOCK_CLOSING_SENTENCE)

\* C33: for every scripted engine, 0 <= current_question_index <=
\* len(questions), and between calls the questions returned since the latest
\* initialize are questions[1..index], each position once and in order; a
\* step changes the index only by adding 1 inside a get_ai_response that
\* returns a question, or by setting it to 0 in initialize_interview, and a
\* get_ai_response that returns the closing sentence leaves it unchanged.
ScriptedCursor ==
    /\ [](\A e \in 1..Len(engines) :
            engines[e].kind = "mock"
                => /\ 0 <= engines[e].idx
                   /\ engines[e].idx <= Len(engines[e].questions)
                   /\ (\A t \in Threads : th[t].epc = "none")
                        => Asked(engines[e])
                             = SubSeq(engines[e].questions, 1, engines[e].idx))
    /\ [][\A e \in 1..Len(engines) :
            engines[e].kind = "mock"
                => /\ engines'[e].idx # engines[e].idx
                        => \/ /\ engines'[e].idx = engines[e].idx + 1
                              /\ \E t \in Threads :
                                   /\ th[t].eng = e
                                   /\ th[t].pc \in {"i_first", "r_call"}
                                   /\ th[t].q # ""
                           \/ /\ engines'[e].idx = 0
                              /\ Called("initialize")
                              /\ probe'.eng = e
                   /\ (\E t \in Threads :
                         /\ th[t].eng = e
                         /\ th[t].pc \in {"i_first", "r_call"}
                         /\ th'[t].ret = MOCK_CLOSING_SENTENCE)
                        => engines'[e].idx = engines[e].idx]_vars

\* a scripted engine that had returned its question and then the closing
\* sentence was initialized again, which set its cursor back to 0
CursorResetAfterClosing ==
    \E s \in Sessions :
        /\ registry[s] # None
        /\ engines[registry[s]].kind = "mock"
        /\ probe.op = "initialize"
        /\ probe.eng = registry[s]
        /\ engines[registry[s]].idx = 0
        /\ \E i \in 1..Len(transcript[s]) :
             transcript[s][i].message = MOCK_CLOSING_SENTENCE
\* ------------------------------------------------------------------ C34
\* C34: a start request answers 200 exactly when the status is 'scheduled'
\* and then sets 'in_progress' and started_at; an end request answers 200
\* exactly when the status is 'in_progress' and then sets 'completed' and
\* ended_at; a request answered 400 leaves the row as it was. A row created
\* as 'scheduled' is never 'completed' without started_at and ended_at, and
\* no step changes a 'completed' row.
StatusLifecycle ==
    /\ [](life.op # "none"
            => LET was == life.before
                   row == session[life.s]
               IN  /\ life.status \in {200, 400}
                   /\ life.op = "start" => (life.status = 200 <=> was.status = "scheduled")
                   /\ life.op = "end" => (life.status = 200 <=> was.status = "in_progress")
                   /\ life.status = 400 => row = was
                   /\ (life.op = "start" /\ life.status = 200)
                        => row = [was EXCEPT !.status = "in_progress", !.started_at = Now]
                   /\ (life.op = "end" /\ life.status = 200)
                        => row = [was EXCEPT !.status = "completed", !.ended_at = Now])
    /\ [](\A s \in DOMAIN session :
            (session[s].created = "scheduled" /\ session[s].status = "completed")
                => session[s].started_at # None /\ session[s].ended_at # None)
    /\ [][\A s \in DOMAIN session :
            session[s].status = "completed" => session'[s] = session[s]]_vars

\* a session created as scheduled was started and ended, and the end request
\* sent again was refused
EndRefusedOnceCompleted ==
    /\ life.op = "end"
    /\ life.status = 400
    /\ life.s \in DOMAIN session
    /\ session[life.s].created = "scheduled"
    /\ session[life.s].status = "completed"
\* ------------------------------------------------------------------ C35
\* C35: a session has at most one InterviewReport row, the renderer has
\* completed at most once for it, and a generate request answered while the
\* session has a report, and whose own renderer run did not fail, is
\* answered with that report (200, or 201 by the request that created it).
ReportIdempotent ==
    \A s \in Stored :
        /\ Cardinality(ReportsOf(s)) <= 1
        /\ Cardinality({i \in 1..Len(report.runs) :
                           report.runs[i].session = s /\ report.runs[i].ok}) <= 1
        /\ \A t \in Threads :
             (/\ report.g[t].pc = "idle"
              /\ report.g[t].sess = s
              /\ report.g[t].status # 0
              /\ ~report.g[t].failed
              /\ ReportsOf(s) # {})
                 => \/ report.g[t].status = 200
                    \/ /\ report.g[t].status = 201
                       /\ \E i \in ReportsOf(s) : report.rows[i].by = report.g[t].rid
\* ------------------------------------------------------------------ C36
\* C36: a Gemini engine object on which initialize_interview has not been
\* called has an empty history, and no call on it reaches the provider
\* request; get_ai_response called on it raises "Interview not initialized"
\* and end_interview called on it returns the fixed valediction.
UninitializedGeminiIsInert ==
    /\ \A e \in 1..Len(engines) :
         (engines[e].kind = "gemini" /\ ~engines[e].chat)
             => engines[e].hist = <<>> /\ engines[e].prompted = 0
    /\ \A t \in Threads :
         (th[t].epc \in {"g_send", "g_app1", "g_app2"}) => engines[th[t].eng].chat
    /\ \A t \in Threads :
         (/\ th[t].pc = "idle"
          /\ th[t].act \in {"get_ai_response", "end_interview"}
          /\ probe.op = th[t].act
          /\ engines[probe.eng].kind = "gemini"
          /\ ~engines[probe.eng].chat)
             => /\ th[t].perr = ""
                /\ th[t].act = "get_ai_response"
                     => /\ th[t].resp.kind = "error"
                        /\ th[t].resp.a = "Interview not initialized"
                /\ th[t].act = "end_interview"
                     => /\ th[t].resp.status = 200
                        /\ th[t].resp.a = GEMINI_VALEDICTION

\* end_interview and then get_ai_response were called on a Gemini engine
\* object that was never initialized
UninitializedGeminiCalled ==
    \E t \in Threads :
        /\ th[t].pc = "idle"
        /\ th[t].act = "get_ai_response"
        /\ probe.op = "get_ai_response"
        /\ probe.n >= 2
        /\ ~engines[probe.eng].chat
        /\ th[t].resp.a = "Interview not initialized"
\* ------------------------------------------------------------------ C37
\* C37: a Gemini engine prepends the system prompt to the message it sends
\* exactly when its history is empty, so that between calls the prompt has
\* been delivered once if the history is non-empty and not at all otherwise;
\* the history never holds the prompt: it is a sequence of user/assistant
\* pairs, and a step extends it only by the raw message of the call as a
\* user entry or by the reply as an assistant entry, unless it is
\* initialize_interview starting the history anew.
SystemPromptOnce ==
    /\ [](\A e \in 1..Len(engines) :
            (engines[e].kind = "gemini" /\ \A t \in Threads : th[t].epc = "none")
                => LET h == engines[e].hist
                   IN  /\ engines[e].prompted = IF h = <<>> THEN 0 ELSE 1
                       /\ Len(h) % 2 = 0
                       /\ \A i \in 1..Len(h) :
                            /\ h[i].content # SYSTEM_PROMPT
                            /\ h[i].role = IF i % 2 = 1 THEN "user" ELSE "assistant")
    /\ [][\A t \in Threads :
            (th[t].epc = "g_send" /\ th'[t] # th[t])
                => (th[t].first <=> engines[th[t].eng].hist = <<>>)]_vars
    /\ [][\A e \in 1..Len(engines) :
            (engines[e].kind = "gemini" /\ engines'[e].hist # engines[e].hist)
                => \/ Called("initialize") /\ probe'.eng = e
                   \/ \E t \in Threads :
                        /\ th[t].eng = e
                        /\ \/ /\ th[t].epc = "g_app1"
                              /\ engines'[e].hist
                                   = Append(engines[e].hist, Msg("user", th[t].arg))
                           \/ /\ th[t].epc = "g_app2"
                              /\ engines'[e].hist
                                   = Append(engines[e].hist, Msg("assistant", th'[t].ret))]_vars

\* a Gemini engine was initialized and then answered a get_ai_response: its
\* history holds two pairs and the prompt was delivered once
PromptDeliveredOnce ==
    \E e \in 1..Len(engines) :
        /\ engines[e].kind = "gemini"
        /\ AllIdle
        /\ probe.op = "get_ai_response"
        /\ probe.eng = e
        /\ Len(engines[e].hist) = 4
        /\ engines[e].prompted = 1
====
